---------------------------- MODULE Spec2Model ----------------------------
(***************************************************************************)
(* A model of the options-pricing core of backend/server.py:               *)
(*   parse_option_chain_record, get_lot_size        (OptionRecordParser)   *)
(*   black_scholes_price, black_scholes_vega        (BlackScholesModel)    *)
(*   calculate_implied_volatility, calculate_iv_bisection (IV solver)      *)
(*                                                                         *)
(* Python values are records [k, n, d]: k is the Python type, n/d the      *)
(* number it holds (d = 1 for int and bool), n the length of a str/list.   *)
(* Floats of the pricing code are fixed-point integers in millionths       *)
(* (1.0 is 1000000); see the Fx operators for what that keeps and loses.   *)
(***************************************************************************)
EXTENDS Integers, Sequences, FiniteSets, TLC

VARIABLES
    p_pc,       \* parser: "idle" before the call, "done" after it
    p_record,   \* parser: the record argument [list, items]
    p_symbol,   \* parser: the symbol argument
    p_ret,      \* parser: what the call gave back [raised, some, quote]
    bs_pc,      \* pricing: "idle" before the call, "done" after it
    bs_args,    \* pricing: the arguments of black_scholes_price
    bs_branch,  \* pricing: the return statement the call left by
    bs_price,   \* pricing: the price returned
    iv_pc,      \* solver: "idle", "newton", "bisection_entry", "bisection", "done"
    iv_args,    \* solver: the arguments of calculate_implied_volatility
    cur_volatility, \* solver: the Newton-Raphson iterate `volatility`
    newton_i,   \* solver: Newton-Raphson iterations completed
    newton_exit,\* solver: how the Newton-Raphson phase ended
    vol_low,    \* bisection: lower end of the bracket
    vol_high,   \* bisection: upper end of the bracket
    bisect_i,   \* bisection: iterations completed
    bisect_exit,\* bisection: how it ended
    iv_ret,     \* solver: the result [some, v]
    clock,      \* the wall clock datetime.now() reads, in days
    ag_pc,      \* aggregator: "idle" before the call, "done" after it
    ag_payload, \* aggregator: option_chain_data [dict, direct, records]
    ag_spot,    \* aggregator: spot_price
    ag_now,     \* aggregator: the clock as the call read it
    ag_out,     \* aggregator: [path, ret, options, calls] of the call
    store,      \* db.daily_stock_data: the documents [symbol, date, iv, ...]
    pct_pc,     \* percentile: "idle" before the call, "done" after it
    pct_db,     \* percentile: whether the global db is set (not None)
    pct_symbol, \* percentile: the symbol argument
    pct_current_iv, \* percentile: the current_iv argument
    pct_out,    \* percentile: [path, ret, days_below, total_days, after]
    ix_pc,      \* api/index.py: the block of the module the import is at
    handler,    \* api/index.py: the module-level name `handler`
    app_loaded, \* api/index.py: create_handler's `app` is not None
    ix_trace,   \* api/index.py: the blocks run so far and how each ended
    tasks,      \* fan-out: per task, the invocation, what it read, its result
    fs_pc,      \* fetch_stock_data: "idle" before the call, "done" after it
    fs_in,      \* fetch_stock_data: the symbol and what its awaits returned
    fs_out,     \* fetch_stock_data: the StockData returned
    sv_runs,    \* save_daily_stock_data: per run, where its loop stands
    dash_pc,    \* get_dashboard_data: "idle", "gathering", "done"
    dash_tasks, \* get_dashboard_data: per symbol, the task of its fetch
    dash_order, \* get_dashboard_data: the tasks in the order they completed
    dash_out    \* get_dashboard_data: the data of the DashboardResponse

parser_vars == <<p_pc, p_record, p_symbol, p_ret>>

pricing_vars == <<bs_pc, bs_args, bs_branch, bs_price>>

solver_vars == <<iv_pc, iv_args, cur_volatility, newton_i, newton_exit,
                 vol_low, vol_high, bisect_i, bisect_exit, iv_ret>>

aggregator_vars == <<ag_pc, ag_payload, ag_spot, ag_now, ag_out>>

\* the state of the functions built on the parser, the pricing and the solver
percentile_vars == <<pct_pc, pct_db, pct_symbol, pct_current_iv, pct_out>>

index_vars == <<ix_pc, handler, app_loaded, ix_trace>>

\* the state of the callers of the core in backend/server.py
service_vars ==
    <<fs_pc, fs_in, fs_out, sv_runs, dash_pc, dash_tasks, dash_order, dash_out>>

later_vars ==
    <<clock, aggregator_vars, store, percentile_vars, index_vars, tasks,
      service_vars>>

vars == <<parser_vars, pricing_vars, solver_vars, later_vars>>

-----------------------------------------------------------------------------
(* Python values *)

NoneV == [k |-> "none", n |-> 0, d |-> 1]
IntV(i) == [k |-> "int", n |-> i, d |-> 1]
FloatV(num, den) == [k |-> "float", n |-> num, d |-> den]
BoolV(b) == [k |-> "bool", n |-> IF b THEN 1 ELSE 0, d |-> 1]
StrV(len) == [k |-> "str", n |-> len, d |-> 1]
ListV(len) == [k |-> "list", n |-> len, d |-> 1]
\* an int beyond the largest float (JSON has no limit on integers): 10**400
BigIntV == [k |-> "bigint", n |-> 1, d |-> 1]

Abs(x) == IF x < 0 THEN -x ELSE x
Sgn(x) == IF x < 0 THEN -1 ELSE 1
Max(a, b) == IF a >= b THEN a ELSE b
Min(a, b) == IF a <= b THEN a ELSE b

RECURSIVE GCD(_, _)
GCD(a, b) == IF b = 0 THEN a ELSE GCD(b, a % b)

\* isinstance(v, (int, float)): bool is a subclass of int in Python
IsIntOrFloat(v) == v.k \in {"int", "float", "bool", "bigint"}

IsException(v) == v.k \in {"TypeError", "ZeroDivisionError", "OverflowError"}

\* bool(v), the truth value Python's `x and ...` tests
Truthy(v) == v.k # "none" /\ v.n # 0

\* x / lot_size on Python values: true division gives a float (kept as the
\* exact fraction in lowest terms), a str, list or None operand raises
\* TypeError, a zero divisor ZeroDivisionError, an int too large for a float
\* OverflowError ("integer division result too large for a float")
TrueDiv(v, lot) ==
    IF v.k \in {"str", "list", "none"}
    THEN [k |-> "TypeError", n |-> 0, d |-> 1]
    ELSE IF lot = 0
    THEN [k |-> "ZeroDivisionError", n |-> 0, d |-> 1]
    ELSE IF v.k = "bigint"
    THEN [k |-> "OverflowError", n |-> 0, d |-> 1]
    ELSE LET g == GCD(Abs(v.n), v.d * Abs(lot))
         IN  [k |-> "float", n |-> (Sgn(lot) * v.n) \div g,
              d |-> (v.d * Abs(lot)) \div g]

-----------------------------------------------------------------------------
(* get_lot_size *)

get_lot_size(symbol) ==
    CASE symbol = "NIFTY" -> 50
      [] symbol = "BANKNIFTY" -> 15
      [] OTHER -> 500

(* parse_option_chain_record *)

\* the division without its guard
NormalizeUnguarded(raw, lot_size) == TrueDiv(raw, lot_size)

\* the guard as `raw is not None`: a raw 0 is divided like any number
NormalizeZeroKept(raw, lot_size) ==
    IF raw.k # "none" /\ lot_size > 0 THEN TrueDiv(raw, lot_size) ELSE NoneV

\* `raw / lot_size if raw and lot_size > 0 else None`
Normalize(raw, lot_size) ==
    IF Truthy(raw) /\ lot_size > 0 THEN TrueDiv(raw, lot_size) ELSE NoneV

\* record[i] of the Python code (0-based) on a sequence (1-based)
At(items, i) == items[i + 1]

\* the call volume taken from record[10]
CallVolRawFrom10(r) == At(r, 10)

\* `record[9] if len(record) > 9 else (record[10] if len(record) > 10 else None)`
CallVolRaw(r) ==
    IF Len(r) > 9 THEN At(r, 9) ELSE IF Len(r) > 10 THEN At(r, 10) ELSE NoneV

\* the exceptions the except clause of the parser catches
ParserCaught == {"IndexError", "TypeError", "ValueError", "ZeroDivisionError"}

NoQuote == [raised |-> FALSE, some |-> FALSE, quote |-> <<>>]
Raised == [raised |-> TRUE, some |-> FALSE, quote |-> <<>>]

parse_option_chain_record(record, symbol) ==
    IF ~record.list \/ Len(record.items) < 21 THEN NoQuote
    ELSE
      LET r == record.items
          lot_size == get_lot_size(symbol)
          strike == At(r, 11)
          call_oi == Normalize(At(r, 3), lot_size)
          call_vol == Normalize(CallVolRaw(r), lot_size)
          put_oi == Normalize(At(r, 16), lot_size)
          put_vol == Normalize(At(r, 19), lot_size)
      IN  IF strike.k = "none" \/ ~IsIntOrFloat(strike) THEN NoQuote
          ELSE IF \E f \in {call_oi, call_vol, put_oi, put_vol} : IsException(f)
          THEN IF \A f \in {call_oi, call_vol, put_oi, put_vol} :
                     IsException(f) => f.k \in ParserCaught
               THEN NoQuote ELSE Raised
          ELSE [raised |-> FALSE, some |-> TRUE, quote |->
                 [strike |-> strike,
                  call |-> [oi |-> call_oi, ltp |-> At(r, 4), bid |-> At(r, 5),
                            bid_qty |-> At(r, 6), ask |-> At(r, 7),
                            ask_qty |-> At(r, 8), volume |-> call_vol],
                  put |-> [oi |-> put_oi, ltp |-> At(r, 18), bid |-> At(r, 12),
                           bid_qty |-> At(r, 13), ask |-> At(r, 14),
                           ask_qty |-> At(r, 15), volume |-> put_vol]]]

-----------------------------------------------------------------------------
(* Float arithmetic of the pricing code, in fixed point.                   *)
(*                                                                         *)
(* A float x is the integer round(x * 10^6).  Values stay below 2000 in    *)
(* magnitude so that every intermediate fits 32 bits; a quotient that      *)
(* would leave that range saturates at +-FxBig, which the callers clamp    *)
(* (the Newton update) or feed to the normal distribution (d1, where it is *)
(* far in the tail either way).  math.log, math.exp, math.sqrt and         *)
(* math.erf are computed to about 10^-5; what is lost against a double is  *)
(* the relative precision of values below 10^-6.                           *)

FxOne == 1000 * 1000
FxBig == 2000 * FxOne

\* x * y of two non-negative fixed-point numbers, rounded
FxMulPos(x, y) ==
    LET x1 == x \div 1000
        x0 == x % 1000
        y1 == y \div 1000
        y0 == y % 1000
        c == x1 * y0
        d == x0 * y1
        e == (x0 * y0) \div 1000
    IN  x1 * y1 + c \div 1000 + d \div 1000
          + ((c % 1000) + (d % 1000) + e + 500) \div 1000

FxMul(a, b) == Sgn(a) * Sgn(b) * FxMulPos(Abs(a), Abs(b))

RECURSIVE LongDiv(_, _, _, _)
LongDiv(q, r, y, k) ==
    IF k = 0 THEN q
    ELSE LongDiv(q * 10 + (r * 10) \div y, (r * 10) % y, y, k - 1)

\* x / y of two non-negative fixed-point numbers; a divisor that is 0 here
\* stands for a float too small for the fixed point, not for 0.0
RECURSIVE FxDivPos(_, _)
FxDivPos(x, y) ==
    IF y = 0 THEN (IF x = 0 THEN 0 ELSE FxBig)
    ELSE IF y > 200000000 THEN FxDivPos(x \div 10, y \div 10)
    ELSE IF x \div y >= 2000 THEN FxBig
    ELSE LongDiv(x \div y, x % y, y, 6)

FxDiv(a, b) == Sgn(a) * Sgn(b) * FxDivPos(Abs(a), Abs(b))

\* math.sqrt: Newton's iteration from above
RECURSIVE SqrtIter(_, _)
SqrtIter(x, y) ==
    LET z == (y + FxDivPos(x, y)) \div 2
    IN  IF z >= y THEN y ELSE SqrtIter(x, z)

FxSqrt(x) == IF x <= 0 THEN 0 ELSE SqrtIter(x, Max(x, FxOne))

RECURSIVE Pow2(_)
Pow2(n) == IF n = 0 THEN 1 ELSE 2 * Pow2(n - 1)

RECURSIVE ExpSeries(_, _, _, _)
ExpSeries(f, term, k, acc) ==
    IF term = 0 \/ k > 20 THEN acc
    ELSE LET t == FxMulPos(term, f) \div k
         IN  ExpSeries(f, t, k + 1, acc + t)

\* math.exp: y = n ln 2 + f, e^y = 2^n e^f, e^f by its Taylor series
FxExp(y) ==
    IF y < -15 * FxOne THEN 0
    ELSE IF y > 7 * FxOne THEN FxBig
    ELSE LET n == y \div 693147
             f == y - n * 693147
             e == ExpSeries(f, FxOne, 1, FxOne)
         IN  IF n >= 0 THEN e * Pow2(n)
             ELSE (e + Pow2(-n) \div 2) \div Pow2(-n)

RECURSIVE LnReduce(_, _)
LnReduce(x, k) ==
    IF x > 1414214 THEN LnReduce((x + 1) \div 2, k + 1)
    ELSE IF x < 707107 THEN LnReduce(x * 2, k - 1)
    ELSE <<x, k>>

RECURSIVE LnSeries(_, _, _, _)
LnSeries(z2, p, n, acc) ==
    IF p = 0 \/ n > 15 THEN acc
    ELSE LnSeries(z2, FxMul(p, z2), n + 2,
                  IF p >= 0 THEN acc + p \div n ELSE acc - ((-p) \div n))

\* math.log for x > 0: x = 2^k m, ln x = k ln 2 + 2 artanh((m - 1)/(m + 1))
FxLn(x) ==
    LET mk == LnReduce(x, 0)
        z == FxDiv(mk[1] - FxOne, mk[1] + FxOne)
    IN  mk[2] * 693147 + 2 * LnSeries(FxMul(z, z), z, 1, 0)

\* math.erf for x >= 0 (Abramowitz and Stegun 7.1.26, error below 2 * 10^-7)
FxErfPos(x) ==
    IF x >= 5 * FxOne THEN FxOne
    ELSE LET t == FxDivPos(FxOne, FxOne + FxMulPos(327591, x))
             poly == FxMul(t, 254830 + FxMul(t, -284497 + FxMul(t, 1421414
                       + FxMul(t, -1453152 + FxMul(t, 1061405)))))
         IN  FxOne - FxMul(poly, FxExp(-FxMulPos(x, x)))

FxErf(x) == IF x >= 0 THEN FxErfPos(x) ELSE -FxErfPos(-x)

-----------------------------------------------------------------------------
(* normal_cdf, normal_pdf, black_scholes_price, black_scholes_vega *)

\* 0.5 * (1 + math.erf(x / math.sqrt(2)))
normal_cdf(x) ==
    IF x >= 8 * FxOne THEN FxOne
    ELSE IF x <= -8 * FxOne THEN 0
    ELSE (FxOne + FxErf(FxMul(x, 707107))) \div 2

\* (1 / math.sqrt(2 * math.pi)) * math.exp(-0.5 * x * x).  The double is
\* exactly 0.0 only when exp underflows (0.5 x^2 > 745.13, |x| > 38.604);
\* short of that it is positive, at least the smallest fixed-point number.
normal_pdf(x) ==
    IF Abs(x) >= 38604000 THEN 0
    ELSE IF Abs(x) >= 6 * FxOne THEN 1
    ELSE Max(1, FxMul(398942, FxExp(-(FxMul(x, x) \div 2))))

\* option_type.lower() == "call"
IsCall(option_type) == option_type \in {"call", "CALL", "Call"}

\* max(spot - strike, 0) for a call, max(strike - spot, 0) for a put
Intrinsic(spot, strike, option_type) ==
    IF IsCall(option_type) THEN Max(spot - strike, 0) ELSE Max(strike - spot, 0)

\* d1 of both functions
D1(spot, strike, time_to_expiry, risk_free_rate, volatility) ==
    FxDiv(FxLn(FxDiv(spot, strike))
            + FxMul(risk_free_rate + FxMul(volatility, volatility) \div 2,
                    time_to_expiry),
          FxMul(volatility, FxSqrt(time_to_expiry)))

\* the branches without the test of line 275 (volatility <= 0)
PriceBranchExpiryOnly(time_to_expiry, volatility) ==
    IF time_to_expiry <= 0 THEN "expired" ELSE "formula"

\* which return statement of black_scholes_price the inputs reach
PriceBranch(time_to_expiry, volatility) ==
    IF time_to_expiry <= 0 THEN "expired"
    ELSE IF volatility <= 0 THEN "no_volatility"
    ELSE "formula"

ClosedForm(spot, strike, time_to_expiry, risk_free_rate, volatility, option_type) ==
    LET d1 == D1(spot, strike, time_to_expiry, risk_free_rate, volatility)
        d2 == d1 - FxMul(volatility, FxSqrt(time_to_expiry))
        pv == FxMul(strike, FxExp(-FxMul(risk_free_rate, time_to_expiry)))
    IN  IF IsCall(option_type)
        THEN FxMul(spot, normal_cdf(d1)) - FxMul(pv, normal_cdf(d2))
        ELSE FxMul(pv, normal_cdf(-d2)) - FxMul(spot, normal_cdf(-d1))

\* the price without the max(price, 0) of line 290
black_scholes_price_unfloored(spot, strike, time_to_expiry, risk_free_rate, volatility, option_type) ==
    IF PriceBranch(time_to_expiry, volatility) # "formula"
    THEN Intrinsic(spot, strike, option_type)
    ELSE ClosedForm(spot, strike, time_to_expiry, risk_free_rate,
                    volatility, option_type)

black_scholes_price(spot, strike, time_to_expiry, risk_free_rate, volatility, option_type) ==
    IF PriceBranch(time_to_expiry, volatility) # "formula"
    THEN Intrinsic(spot, strike, option_type)
    ELSE Max(ClosedForm(spot, strike, time_to_expiry, risk_free_rate,
                        volatility, option_type), 0)

black_scholes_vega(spot, strike, time_to_expiry, risk_free_rate, volatility) ==
    IF time_to_expiry <= 0 \/ volatility <= 0 THEN 0
    ELSE LET pdf == normal_pdf(D1(spot, strike, time_to_expiry, risk_free_rate,
                                  volatility))
         IN  IF pdf = 0 THEN 0
             ELSE Max(1, FxMul(FxMul(spot, pdf), FxSqrt(time_to_expiry)))

-----------------------------------------------------------------------------
(* calculate_implied_volatility and calculate_iv_bisection *)

\* a loop bound that is one too many
max_iterations_plus_one == 100 + 1

\* max_iterations of calculate_implied_volatility
max_iterations == 100

\* max_iterations of calculate_iv_bisection
bisection_max_iterations == 100

\* a convergence test ten times as loose
tolerance_tenfold == 10 * 100

\* tolerance of both functions, 0.0001
tolerance == 100

\* the initial guess 0.20, and the bounds 0.001 and 5.0 of the search
InitialVolatility == 200000
VolMin == 1000
VolMax == 5000000

\* a clamp with the upper bound at 10.0
ClampWide(x) == Max(VolMin, Min(2 * VolMax, x))

\* max(0.001, min(5.0, x))
Clamp(x) == Max(VolMin, Min(VolMax, x))

NoSolution == [some |-> FALSE, v |-> 0]
Solution(v) == [some |-> TRUE, v |-> v]

NoArgs == [spot |-> 0, strike |-> 0, time_to_expiry |-> 0, risk_free_rate |-> 0,
           option_price |-> 0, option_type |-> "", sigma_true |-> 0]

PriceAt(a, vol) ==
    black_scholes_price(a.spot, a.strike, a.time_to_expiry, a.risk_free_rate,
                        vol, a.option_type)

VegaAt(a, vol) ==
    black_scholes_vega(a.spot, a.strike, a.time_to_expiry, a.risk_free_rate, vol)

\* a call without the early return of an expired option
EnterUnchecked(a) ==
    /\ iv_pc = "idle"
    /\ iv_args' = a
    /\ iv_pc' = "newton"
    /\ cur_volatility' = InitialVolatility
    /\ UNCHANGED <<iv_ret, newton_exit, newton_i, vol_low, vol_high, bisect_i,
                   bisect_exit>>

\* lines 338-343: the call, its early return and the initial guess
Enter(a) ==
    /\ iv_pc = "idle"
    /\ iv_args' = a
    /\ IF a.time_to_expiry <= 0
       THEN /\ iv_pc' = "done"
            /\ iv_ret' = NoSolution
            /\ newton_exit' = "expired"
            /\ cur_volatility' = cur_volatility
       ELSE /\ iv_pc' = "newton"
            /\ iv_ret' = iv_ret
            /\ newton_exit' = newton_exit
            /\ cur_volatility' = InitialVolatility
    /\ UNCHANGED <<newton_i, vol_low, vol_high, bisect_i, bisect_exit>>

\* the update with the sign of the step reversed
NewtonUpdateSignFlipped(vol, price_diff, vega) ==
    Clamp(vol + FxDiv(price_diff, vega))

\* lines 358-361: the Newton-Raphson update, kept within the bounds
NewtonUpdate(vol, price_diff, vega) ==
    Clamp(vol - FxDiv(price_diff, vega))

\* lines 345-367: one iteration of the Newton-Raphson loop
NewtonStep ==
    /\ iv_pc = "newton"
    /\ newton_i < max_iterations
    /\ LET calculated_price == PriceAt(iv_args, cur_volatility)
           vega == VegaAt(iv_args, cur_volatility)
           price_diff == calculated_price - iv_args.option_price
           volatility_new == NewtonUpdate(cur_volatility, price_diff, vega)
       IN  IF vega = 0
           THEN /\ iv_pc' = "bisection_entry"
                /\ newton_exit' = "vega_zero"
                /\ UNCHANGED <<cur_volatility, newton_i, iv_ret>>
           ELSE IF Abs(volatility_new - cur_volatility) < tolerance
           THEN /\ iv_pc' = "done"
                /\ newton_exit' = "converged"
                /\ iv_ret' = Solution(volatility_new)
                /\ newton_i' = newton_i + 1
                /\ UNCHANGED cur_volatility
           ELSE /\ cur_volatility' = volatility_new
                /\ newton_i' = newton_i + 1
                /\ UNCHANGED <<iv_pc, newton_exit, iv_ret>>
    /\ UNCHANGED <<iv_args, vol_low, vol_high, bisect_i, bisect_exit>>

\* a loop that, its iterations used up, returns its last iterate
NewtonExhaustedReturns ==
    /\ iv_pc = "newton"
    /\ newton_i >= max_iterations
    /\ iv_pc' = "done"
    /\ newton_exit' = "exhausted"
    /\ iv_ret' = Solution(cur_volatility)
    /\ UNCHANGED <<iv_args, cur_volatility, newton_i, vol_low, vol_high, bisect_i, bisect_exit>>

\* line 345, range(max_iterations) exhausted, and line 370
NewtonExhausted ==
    /\ iv_pc = "newton"
    /\ newton_i >= max_iterations
    /\ iv_pc' = "bisection_entry"
    /\ newton_exit' = "exhausted"
    /\ UNCHANGED <<iv_args, cur_volatility, newton_i, vol_low, vol_high, bisect_i, bisect_exit,
                   iv_ret>>

\* the check of the bounds without its upper half
BelowBracketOnly(option_price, price_low, price_high) ==
    option_price < price_low

\* line 393: the observed price is outside what the bracket can give
OutsideBracket(option_price, price_low, price_high) ==
    option_price < price_low \/ option_price > price_high

\* lines 386-394: the bracket and the check of the bounds
BisectionEntry ==
    /\ iv_pc = "bisection_entry"
    /\ LET price_low == PriceAt(iv_args, VolMin)
           price_high == PriceAt(iv_args, VolMax)
       IN  IF OutsideBracket(iv_args.option_price, price_low, price_high)
           THEN /\ iv_pc' = "done"
                /\ iv_ret' = NoSolution
                /\ bisect_exit' = "out_of_range"
                /\ UNCHANGED <<vol_low, vol_high>>
           ELSE /\ iv_pc' = "bisection"
                /\ vol_low' = VolMin
                /\ vol_high' = VolMax
                /\ UNCHANGED <<iv_ret, bisect_exit>>
    /\ UNCHANGED <<iv_args, cur_volatility, newton_i, newton_exit, bisect_i>>

\* an iteration that moves the wrong end of the bracket
BisectionStepInverted ==
    /\ iv_pc = "bisection"
    /\ bisect_i < bisection_max_iterations
    /\ LET vol_mid == (vol_low + vol_high) \div 2
           price_mid == PriceAt(iv_args, vol_mid)
       IN  IF Abs(price_mid - iv_args.option_price) < tolerance
           THEN /\ iv_pc' = "done"
                /\ iv_ret' = Solution(vol_mid)
                /\ bisect_exit' = "tolerance"
                /\ UNCHANGED <<vol_low, vol_high>>
           ELSE /\ IF price_mid < iv_args.option_price
                   THEN vol_high' = vol_mid /\ UNCHANGED vol_low
                   ELSE vol_low' = vol_mid /\ UNCHANGED vol_high
                /\ UNCHANGED <<iv_pc, iv_ret, bisect_exit>>
    /\ bisect_i' = bisect_i + 1
    /\ UNCHANGED <<iv_args, cur_volatility, newton_i, newton_exit>>

\* lines 396-406: one iteration of the bisection loop
BisectionStep ==
    /\ iv_pc = "bisection"
    /\ bisect_i < bisection_max_iterations
    /\ LET vol_mid == (vol_low + vol_high) \div 2
           price_mid == PriceAt(iv_args, vol_mid)
       IN  IF Abs(price_mid - iv_args.option_price) < tolerance
           THEN /\ iv_pc' = "done"
                /\ iv_ret' = Solution(vol_mid)
                /\ bisect_exit' = "tolerance"
                /\ UNCHANGED <<vol_low, vol_high>>
           ELSE /\ IF price_mid < iv_args.option_price
                   THEN vol_low' = vol_mid /\ UNCHANGED vol_high
                   ELSE vol_high' = vol_mid /\ UNCHANGED vol_low
                /\ UNCHANGED <<iv_pc, iv_ret, bisect_exit>>
    /\ bisect_i' = bisect_i + 1
    /\ UNCHANGED <<iv_args, cur_volatility, newton_i, newton_exit>>

\* a fallback that gives up when its iterations are used
BisectionExhaustedGivesNull ==
    /\ iv_pc = "bisection"
    /\ bisect_i >= bisection_max_iterations
    /\ iv_pc' = "done"
    /\ iv_ret' = NoSolution
    /\ bisect_exit' = "exhausted"
    /\ UNCHANGED <<iv_args, cur_volatility, newton_i, newton_exit, vol_low, vol_high, bisect_i>>

\* line 408: the midpoint of the last bracket
BisectionExhausted ==
    /\ iv_pc = "bisection"
    /\ bisect_i >= bisection_max_iterations
    /\ iv_pc' = "done"
    /\ iv_ret' = Solution((vol_low + vol_high) \div 2)
    /\ bisect_exit' = "exhausted"
    /\ UNCHANGED <<iv_args, cur_volatility, newton_i, newton_exit, vol_low, vol_high, bisect_i>>

-----------------------------------------------------------------------------
(* The solver as its callers see it: the same loops, run to their result *)
(* An intermediate result is bound where it is computed:                  *)
(*   CHOOSE r \in {e : v \in {d}} : TRUE   is e with v the value of d      *)

\* one pass of the loop of lines 398-408 on the bracket s; a bracket the
\* loop has returned from stays as it is
BisectionIteration(a, s) ==
    IF s.returned THEN s
    ELSE CHOOSE after \in
            {IF Abs(price_mid - a.option_price) < tolerance
             THEN [s EXCEPT !.returned = TRUE,
                            !.ret = Solution((s.low + s.high) \div 2)]
             ELSE IF price_mid < a.option_price
             THEN [s EXCEPT !.low = (s.low + s.high) \div 2]
             ELSE [s EXCEPT !.high = (s.low + s.high) \div 2] :
               price_mid \in {PriceAt(a, (s.low + s.high) \div 2)}} : TRUE

\* n passes of the loop, taken as two halves; nothing follows a return
RECURSIVE BisectionLoop(_, _, _)
BisectionLoop(a, s, n) ==
    IF n = 0 THEN s
    ELSE IF n = 1 THEN BisectionIteration(a, s)
    ELSE CHOOSE after \in
            {IF half.returned THEN half
             ELSE BisectionLoop(a, half, n - n \div 2) :
               half \in {BisectionLoop(a, s, n \div 2)}} : TRUE

calculate_iv_bisection(a) ==
    IF OutsideBracket(a.option_price, PriceAt(a, VolMin), PriceAt(a, VolMax))
    THEN NoSolution
    ELSE CHOOSE ret \in
            {IF bracket.returned THEN bracket.ret
             ELSE Solution((bracket.low + bracket.high) \div 2) :
               bracket \in
                 {BisectionLoop(a, [low |-> VolMin, high |-> VolMax,
                                    returned |-> FALSE, ret |-> NoSolution],
                                bisection_max_iterations)}} : TRUE

\* one pass of the loop of lines 345-368 at the volatility s.vol; s.left
\* says how the loop was left: "" (still in it), "return" or "break"
NewtonIteration(a, s) ==
    IF s.left # "" THEN s
    ELSE CHOOSE after \in
            {IF vega = 0 THEN [s EXCEPT !.left = "break"]
             ELSE CHOOSE moved \in
                    {IF Abs(volatility_new - s.vol) < tolerance
                     THEN [s EXCEPT !.left = "return",
                                    !.ret = Solution(volatility_new)]
                     ELSE [s EXCEPT !.vol = volatility_new] :
                       volatility_new \in
                         {NewtonUpdate(s.vol, price_diff, vega) :
                            price_diff \in
                              {PriceAt(a, s.vol) - a.option_price}}} : TRUE :
               vega \in {VegaAt(a, s.vol)}} : TRUE

\* n passes of the loop, taken as two halves; nothing follows a return or
\* a break
RECURSIVE NewtonLoop(_, _, _)
NewtonLoop(a, s, n) ==
    IF n = 0 THEN s
    ELSE IF n = 1 THEN NewtonIteration(a, s)
    ELSE CHOOSE after \in
            {IF half.left # "" THEN half
             ELSE NewtonLoop(a, half, n - n \div 2) :
               half \in {NewtonLoop(a, s, n \div 2)}} : TRUE

calculate_implied_volatility(a) ==
    IF a.time_to_expiry <= 0 THEN NoSolution
    ELSE CHOOSE ret \in
            {IF newton.left = "return" THEN newton.ret
             ELSE calculate_iv_bisection(a) :
               newton \in
                 {NewtonLoop(a, [vol |-> InitialVolatility, left |-> "",
                                 ret |-> NoSolution],
                             max_iterations)}} : TRUE


-----------------------------------------------------------------------------
(* parse_expiry_date, calculate_time_to_expiry, extract_iv_from_option_chain *)

\* a dict key that is not there
Absent == [k |-> "absent", n |-> 0, d |-> 1]
\* a str that spells, as DD-MM-YYYY, the day numbered `day`
DateStrV(day) == [k |-> "datestr", n |-> 10, d |-> day]

\* a number as a float of the pricing code
ToFx(v) == (v.n \div v.d) * FxOne + ((v.n % v.d) * FxOne) \div v.d

\* datetime.strptime(expiry_str, "%d-%m-%Y"), None when it raises
parse_expiry_date(v) ==
    IF v.k = "datestr" THEN [some |-> TRUE, day |-> v.d]
    ELSE [some |-> FALSE, day |-> 0]

\* days / 365.25, and 0.0001 from the expiry day on; the clock counts days
calculate_time_to_expiry(expiry_day, now) ==
    LET days == expiry_day - now
    IN  IF days <= 0 THEN 100 ELSE (days * 4 * FxOne) \div 1461

\* the strings of a chain are told apart by their length
SymbolName(v) ==
    IF v.n = 5 THEN "NIFTY" ELSE IF v.n = 9 THEN "BANKNIFTY" ELSE "RELIANCE"

\* parse_option_chain_record(record, symbol) on records[0][0]: a symbol that
\* cannot be hashed raises TypeError in get_lot_size, which the parser catches
ParseWith(record, symv) ==
    IF symv.k = "list" THEN NoQuote
    ELSE parse_option_chain_record(record, SymbolName(symv))

\* what a step of the aggregator comes to: a value, or the exception raised
Val(v) == [exc |-> "", some |-> TRUE, v |-> v]
Nothing == [exc |-> "", some |-> FALSE, v |-> 0]
Exc(kind) == [exc |-> kind, some |-> FALSE, v |-> 0]

\* `ltp and isinstance(ltp, (int, float)) and ltp > 0`
LtpUsable(ltp) == Truthy(ltp) /\ IsIntOrFloat(ltp) /\ ltp.n > 0

\* any volatility the solver returns
IvReturned(iv) == iv.some /\ iv.v # 0

\* `iv and 0.05 <= iv <= 2.0`
IvPlausible(iv) == iv.some /\ iv.v # 0 /\ 50000 <= iv.v /\ iv.v <= 2 * FxOne

risk_free_rate == 65000

\* the call of calculate_implied_volatility for one side of a quote: arithmetic
\* on an int beyond the floats raises OverflowError, a strike of 0
\* ZeroDivisionError and a quotient spot / strike <= 0 ValueError (math.log)
SolveSide(spot, strike, time_to_expiry, ltp, side) ==
    IF "bigint" \in {ltp.k, strike.k, spot.k} THEN Exc("OverflowError")
    ELSE IF strike.n = 0 THEN Exc("ZeroDivisionError")
    ELSE IF (spot.n > 0) # (strike.n > 0) \/ spot.n = 0 THEN Exc("ValueError")
    ELSE CHOOSE out \in
            {IF iv.some THEN Val(iv.v) ELSE Nothing :
               iv \in {calculate_implied_volatility(a) :
                         a \in {[spot |-> ToFx(spot), strike |-> ToFx(strike),
                                 time_to_expiry |-> time_to_expiry,
                                 risk_free_rate |-> risk_free_rate,
                                 option_price |-> ToFx(ltp),
                                 option_type |-> side, sigma_true |-> 0]}}} :
            TRUE

\* one entry of atm_options: (strike_diff, iv, side), and the record it is from
Option(diff, iv, side, rec) == [diff |-> diff, iv |-> iv, side |-> side, rec |-> rec]

\* lines 598-623 for one side of the quote of record `rec`: the running
\* result `acc` with the call of the solver logged and its candidate appended
ScanSide(acc, rec, spot, strike, time_to_expiry, ltp, side) ==
    IF acc.exc # "" \/ ~LtpUsable(ltp) THEN acc
    ELSE CHOOSE after \in
            {LET call == [rec |-> rec, side |-> side, out |-> out]
                 diff == Abs(ToFx(strike) - ToFx(spot))
             IN  [exc |-> out.exc,
                  calls |-> Append(acc.calls, call),
                  options |-> IF IvPlausible(out)
                              THEN Append(acc.options,
                                          Option(diff, out.v, side, rec))
                              ELSE acc.options] :
               out \in {SolveSide(spot, strike, time_to_expiry, ltp, side)}} :
            TRUE

\* lines 598-623: the loop over the records, from record `rec` on.
\* abs(strike - spot_price) raises TypeError when the spot is no number
RECURSIVE Scan(_, _, _, _, _, _)
Scan(acc, records, rec, symv, spot, time_to_expiry) ==
    IF rec > Len(records) \/ acc.exc # "" THEN acc
    ELSE CHOOSE scanned \in
            {IF parsed.raised
             THEN [acc EXCEPT !.exc = "OverflowError"]
             ELSE IF ~parsed.some
             THEN Scan(acc, records, rec + 1, symv, spot, time_to_expiry)
             ELSE IF ~IsIntOrFloat(spot)
             THEN [acc EXCEPT !.exc = "TypeError"]
             ELSE CHOOSE rest \in
                    {Scan(afterPut, records, rec + 1, symv, spot,
                          time_to_expiry) :
                       afterPut \in
                         {ScanSide(afterCall, rec, spot, parsed.quote.strike,
                                   time_to_expiry, parsed.quote.put.ltp,
                                   "put") :
                            afterCall \in
                              {ScanSide(acc, rec, spot, parsed.quote.strike,
                                        time_to_expiry,
                                        parsed.quote.call.ltp, "call")}}} :
                    TRUE :
               parsed \in {ParseWith(records[rec], symv)}} : TRUE

\* an insertion in front of the entries of equal key
RECURSIVE InsertUnstable(_, _)
InsertUnstable(sorted, x) ==
    IF sorted = <<>> THEN <<x>>
    ELSE IF Head(sorted).diff < x.diff
    THEN <<Head(sorted)>> \o InsertUnstable(Tail(sorted), x)
    ELSE <<x>> \o sorted

\* the position a stable sort gives x: behind every entry whose key is not
\* larger
RECURSIVE InsertStable(_, _)
InsertStable(sorted, x) ==
    IF sorted = <<>> THEN <<x>>
    ELSE IF Head(sorted).diff <= x.diff
    THEN <<Head(sorted)>> \o InsertStable(Tail(sorted), x)
    ELSE <<x>> \o sorted

\* atm_options.sort(key=lambda x: x[0])
RECURSIVE SortByDiff(_)
SortByDiff(options) ==
    IF options = <<>> THEN <<>>
    ELSE InsertStable(SortByDiff(SubSeq(options, 1, Len(options) - 1)),
                      options[Len(options)])

RECURSIVE SumIv(_)
SumIv(options) == IF options = <<>> THEN 0 ELSE Head(options).iv + SumIv(Tail(options))

\* round(x * 100, 2), as a float: the nearest multiple of 0.01
RoundPercent(x) == ((x * 100 + 5000) \div 10000) * 10000

\* every option, however many
TakeAll(options) == options

\* atm_options[:10]
TopClosest(options) == SubSeq(options, 1, Min(10, Len(options)))

\* strike_diff / spot_price < 0.05
WithinBand(o, spot) == FxDiv(o.diff, ToFx(spot)) < 50000

\* a str that spells the number num / den
NumStrV(num, den) == [k |-> "numstr", n |-> num, d |-> den]

\* float(v): of a number, of a str that spells one, of anything else
Float(v) ==
    IF v.k \in {"int", "float", "bool", "numstr"} THEN Val(ToFx(v))
    ELSE IF v.k = "bigint" THEN Exc("OverflowError")
    ELSE IF v.k \in {"str", "datestr"} THEN Exc("ValueError")
    ELSE Exc("TypeError")

\* the keys looked up in the reverse order
LastPresent(direct) ==
    IF direct = <<>> THEN Absent
    ELSE IF direct[Len(direct)] # Absent THEN direct[Len(direct)]
    ELSE IF Len(direct) > 1 /\ direct[Len(direct) - 1] # Absent
    THEN direct[Len(direct) - 1]
    ELSE Head(direct)

\* the first of the keys 'IV', 'impliedVolatility', 'iv' the payload has
RECURSIVE FirstPresent(_)
FirstPresent(direct) ==
    IF direct = <<>> THEN Absent
    ELSE IF Head(direct) # Absent THEN Head(direct)
    ELSE FirstPresent(Tail(direct))

\* what the call returns, with how it got there
Outcome(path, ret, scan) ==
    [path |-> path, ret |-> ret, options |-> scan.options, calls |-> scan.calls]

NoScan == [exc |-> "", calls |-> <<>>, options |-> <<>>]

\* lines 625-649: the candidates sorted, cut and averaged
Aggregate(scan, spot) ==
    LET sorted == SortByDiff(scan.options)
        top == TopClosest(sorted)
        atm_ivs == SelectSeq(top, LAMBDA o : WithinBand(o, spot))
    IN  IF atm_ivs # <<>>
        THEN Outcome("average",
                     Val(RoundPercent(FxDiv(SumIv(atm_ivs), Len(atm_ivs) * FxOne))),
                     scan)
        ELSE Outcome("closest", Val(RoundPercent(sorted[1].iv)), scan)

\* extract_iv_from_option_chain(option_chain_data, spot_price) at clock `now`;
\* `except Exception` turns every exception into None
extract_iv_from_option_chain(payload, spot, now) ==
    IF ~payload.dict THEN Outcome("not_dict", Nothing, NoScan)
    ELSE IF FirstPresent(payload.direct) # Absent
    THEN LET f == Float(FirstPresent(payload.direct))
         IN  IF f.exc # "" THEN Outcome("exception", Nothing, NoScan)
             ELSE Outcome("direct", f, NoScan)
    ELSE IF payload.records.k # "list" \/ payload.records.items = <<>>
    THEN Outcome("no_records", Nothing, NoScan)
    ELSE
      LET records == payload.records.items
          first == records[1]
          expiry_str == IF Len(first.items) > 1
                           /\ first.items[2].k \in {"str", "datestr"}
                           /\ first.items[2].n > 0
                        THEN first.items[2] ELSE NoneV
          expiry_date == parse_expiry_date(expiry_str)
      IN  IF ~first.list THEN Outcome("exception", Nothing, NoScan)
          ELSE IF ~expiry_date.some THEN Outcome("no_expiry", Nothing, NoScan)
          ELSE CHOOSE outcome \in
                 {IF scan.exc # "" THEN Outcome("exception", Nothing, scan)
                  ELSE IF scan.options = <<>>
                  THEN Outcome("no_candidates", Nothing, scan)
                  ELSE Aggregate(scan, spot) :
                    scan \in
                      {Scan(NoScan, records, 1, first.items[1], spot,
                            time_to_expiry) :
                         time_to_expiry \in
                           {calculate_time_to_expiry(expiry_date.day, now)}}} :
                 TRUE
-----------------------------------------------------------------------------
(* calculate_iv_percentile *)

HistoryLimit == 252

\* a document of db.daily_stock_data
Doc(symbol, date, iv) == [symbol |-> symbol, date |-> date, iv |-> iv]

\* the filter {"symbol": symbol, "iv": {"$exists": True, "$ne": None}}
Matches(doc, symbol) == doc.symbol = symbol /\ doc.iv.k \notin {"absent", "none"}

\* find(...).sort("date", -1).limit(252): the positions in the store of the
\* matching documents, fewer than HistoryLimit of them having a later date
Found(docs, symbol) ==
    LET matching == {j \in DOMAIN docs : Matches(docs[j], symbol)}
    IN  {j \in matching :
           Cardinality({i \in matching : docs[i].date > docs[j].date})
              < HistoryLimit}

\* `iv <= current_iv`
LessOrEqual(fx, current_iv) ==
    IF current_iv.k = "bigint" THEN TRUE ELSE fx <= ToFx(current_iv)

\* `iv < current_iv` of the float iv: a str or a list on the right raises
\* TypeError, an int beyond the floats is above every float
LessThan(fx, current_iv) ==
    IF current_iv.k = "bigint" THEN TRUE ELSE fx < ToFx(current_iv)

Comparable(current_iv) == current_iv.k \in {"int", "float", "bool", "bigint"}

\* round(x, 2) of the float x = 100 * num / den, as a float: the nearest
\* multiple of 0.01, the even one of two that are equally near
RoundHalfEven(num, den) ==
    LET h == (10000 * num) \div den
        r == (10000 * num) % den
    IN  (IF 2 * r > den \/ (2 * r = den /\ h % 2 = 1) THEN h + 1 ELSE h) * 10000

\* (days_below / total_days) * 100, rounded
PercentileOf(days_below, total_days) ==
    IF total_days = 0 THEN Exc("ZeroDivisionError")
    ELSE Val(RoundHalfEven(days_below, total_days))

\* `if not historical_ivs` without its effect
NeverEmpty(found) == FALSE

\* `if not historical_ivs`
IsEmpty(found) == found = {}

\* a find that also removes what it found
DeleteFound(docs, found) == SelectSeq(docs, LAMBDA doc : \A j \in found : docs[j] # doc)

\* what the call leaves in the store: it issues one find and nothing else
StoreAfter(docs, found) == docs

PctOutcome(path, ret, days_below, total_days, after) ==
    [path |-> path, ret |-> ret, days_below |-> days_below,
     total_days |-> total_days, after |-> after]

\* calculate_iv_percentile(symbol, current_iv) with the global db set or
\* None and the collection holding docs; `except Exception` turns every
\* exception into None
calculate_iv_percentile(db, docs, symbol, current_iv) ==
    IF ~db \/ current_iv.k = "none"
    THEN PctOutcome("no_input", Nothing, 0, 0, docs)
    ELSE
      LET found == Found(docs, symbol)
          after == StoreAfter(docs, found)
          historical_ivs == [j \in found |-> Float(docs[j].iv)]
          days_below == Cardinality({j \in found :
                                       LessThan(historical_ivs[j].v, current_iv)})
          total_days == Cardinality(found)
          percentile == PercentileOf(days_below, total_days)
      IN  IF \E j \in found : historical_ivs[j].exc # ""
          THEN PctOutcome("exception", Nothing, 0, 0, after)
          ELSE IF IsEmpty(found)
          THEN PctOutcome("no_history", Nothing, 0, 0, after)
          ELSE IF ~Comparable(current_iv)
          THEN PctOutcome("exception", Nothing, 0, total_days, after)
          ELSE IF percentile.exc # ""
          THEN PctOutcome("zero_division", Nothing, days_below, total_days, after)
          ELSE PctOutcome("computed", percentile, days_below, total_days, after)

-----------------------------------------------------------------------------
(* get_previous_day_data and fetch_stock_data *)

TOP_20_STOCKS ==
    <<"NIFTY", "BANKNIFTY", "RELIANCE", "TCS", "HDFCBANK",
      "INFY", "ICICIBANK", "HINDUNILVR", "ITC", "SBIN",
      "BHARTIARTL", "KOTAKBANK", "LT", "ASIANPAINT", "HCLTECH",
      "AXISBANK", "MARUTI", "SUNPHARMA", "TITAN", "ULTRACEMCO">>

\* hash(symbol) as one process has it: the hash of a str differs from
\* process to process and may be negative
hash(symbol) ==
    CASE symbol = "NIFTY" -> -7
      [] symbol = "BANKNIFTY" -> 64
      [] symbol = "RELIANCE" -> 3000
      [] OTHER -> -31

\* 20 + (hash(symbol) % 30), a float of the model
MockIv(symbol) == (20 + (hash(symbol) % 30)) * FxOne

\* get_date_key: the day as YYYY-MM-DD, which sorts as the day count does
get_date_key(day) == day

\* stock_doc of save_daily_stock_data, a document of db.daily_stock_data
StockDoc(symbol, date, spot, volume, iv, iv_percentile, saved_at) ==
    [symbol |-> symbol, date |-> date, spot |-> spot, volume |-> volume,
     iv |-> iv, iv_percentile |-> iv_percentile, saved_at |-> saved_at]

\* doc.get(key)
Get(doc, key) == IF key \in DOMAIN doc THEN doc[key] ELSE NoneV

\* what find_one returns: a document or None
NoDocument == [some |-> FALSE, doc |-> [symbol |-> ""]]
Document(doc) == [some |-> TRUE, doc |-> doc]

\* the first position of a non-empty set of positions
FirstOf(positions) == CHOOSE j \in positions : \A i \in positions : j <= i

\* get_previous_day_data(symbol) on the day `now`, with the global db set or
\* None and the collection holding docs; `raises` is a find_one that raises
get_previous_day_data(db, raises, docs, symbol, now) ==
    IF ~db \/ raises THEN NoDocument
    ELSE
      LET date_key == get_date_key(now - 1)
          of_yesterday == {j \in DOMAIN docs :
                             docs[j].date = date_key /\ docs[j].symbol = symbol}
          of_symbol == {j \in DOMAIN docs : docs[j].symbol = symbol}
          latest == {j \in of_symbol :
                       \A i \in of_symbol : docs[i].date <= docs[j].date}
      IN  IF of_yesterday # {} THEN Document(docs[FirstOf(of_yesterday)])
          ELSE IF of_symbol # {} THEN Document(docs[FirstOf(latest)])
          ELSE NoDocument

\* round(x, 2) of a float: the nearest multiple of 0.01, the even one of
\* two that are equally near
RoundTwo(x) ==
    LET h == x \div 10000
        r == x % 10000
    IN  (IF 2 * r > 10000 \/ (2 * r = 10000 /\ h % 2 = 1) THEN h + 1 ELSE h)
          * 10000

\* `round(x, 2) if x else None` and `if x: x = round(x, 2)`
RoundedOrNone(x) == IF x.some /\ x.v # 0 THEN Val(RoundTwo(x.v)) ELSE Nothing
Rounded(x) == IF x.some THEN Val(RoundTwo(x.v)) ELSE Nothing

\* a stored number, or None, as a float or None
OfValue(v) == IF v.k \in {"none", "absent"} THEN Nothing ELSE Val(ToFx(v))

\* a float of whole hundredths as a stored number
AsValue(x) == FloatV(x \div 10000, 100)

\* a StockData; "" stands for a signal or an error that is None
StockData(symbol, spot, change_percent, volume, iv, iv_percentile, signal, error) ==
    [symbol |-> symbol, spot |-> spot, change_percent |-> change_percent,
     volume |-> volume, iv |-> iv, iv_percentile |-> iv_percentile,
     signal |-> signal, error |-> error]

\* StockData(symbol=symbol, error=...)
FetchFailed(symbol, error) ==
    StockData(symbol, NoneV, Nothing, NoneV, Nothing, Nothing, "", error)

\* what fetch_option_chain returns: None, or the JSON of the response
NoChain == [some |-> FALSE, payload |-> [dict |-> FALSE]]
Chain(payload) == [some |-> TRUE, payload |-> payload]

\* `records and len(records) > 0` of the value under 'Records': a str
\* here is a non-empty one, a number is not 0 and has no len()
RecordsUsable(records) ==
    IF records.k = "list" THEN records.items # <<>> ELSE records.k = "str"

\* lines 1036-1037: the exception the look at the chain raises, if any
ChainLookRaises(chain) ==
    IF ~chain.some THEN ""
    ELSE IF ~chain.payload.dict THEN "AttributeError"
    ELSE IF chain.payload.records.k = "int" THEN "TypeError"
    ELSE ""

\* lines 1035-1046: the IV of the live option chain, None when there is
\* no chain, no record in it, or nothing to extract
LiveIv(chain, ltp, now) ==
    IF chain.some /\ chain.payload.dict /\ RecordsUsable(chain.payload.records)
    THEN extract_iv_from_option_chain(chain.payload, ltp, now).ret
    ELSE Nothing

\* the priority without its first rung: the stored IV wins over a live one
StoredFirst(live, previous_day_data) ==
    IF previous_day_data.some THEN OfValue(Get(previous_day_data.doc, "iv"))
    ELSE live

\* lines 1028-1053: the live IV, else the IV of the previous day's document
LiveThenStored(live, previous_day_data) ==
    IF live.some THEN live
    ELSE IF previous_day_data.some
    THEN OfValue(Get(previous_day_data.doc, "iv"))
    ELSE Nothing

\* line 1052: the percentile of the previous day's document, taken when the
\* live extraction gave None
StoredPercentile(live_percentile, live, previous_day_data) ==
    IF live.some THEN live_percentile
    ELSE IF previous_day_data.some
    THEN OfValue(Get(previous_day_data.doc, "iv_percentile"))
    ELSE Nothing

\* lines 1017-1025: the signal of a change in percent
SignalOf(change_percent) ==
    IF Abs(change_percent) > 2 * FxOne THEN "High Volatility"
    ELSE IF change_percent > FxOne THEN "Bullish"
    ELSE IF change_percent < -FxOne THEN "Bearish"
    ELSE "Neutral"

\* fetch_stock_data(token, symbol), given in e what its awaits returned:
\* ltp, previous_day_data, option_chain_data, the day `now`, the db and
\* the collection calculate_iv_percentile finds, and what random gives
fetch_stock_data(e) ==
    IF e.ltp.k = "none" THEN FetchFailed(e.symbol, "Failed to fetch data")
    ELSE IF ChainLookRaises(e.option_chain_data) # ""
    THEN FetchFailed(e.symbol, ChainLookRaises(e.option_chain_data))
    ELSE
      LET doc == e.previous_day_data.doc
          previous_close == Get(doc, "spot")
          has_close == e.previous_day_data.some /\ Truthy(previous_close)
          change_percent ==
              IF has_close /\ previous_close.n > 0
              THEN RoundTwo(100 * FxDiv(ToFx(e.ltp) - ToFx(previous_close),
                                        ToFx(previous_close)))
              ELSE e.mock_change
          volume == IF e.previous_day_data.some /\ Truthy(Get(doc, "volume"))
                    THEN Get(doc, "volume")
                    ELSE e.mock_volume
      IN  CHOOSE data \in
            {LET live_percentile ==
                     IF live.some /\ live.v # 0
                     THEN calculate_iv_percentile(e.db, e.docs, e.symbol,
                                                  AsValue(live.v)).ret
                     ELSE Nothing
                 found == LiveThenStored(live, e.previous_day_data)
                 iv == IF found.some THEN found ELSE Val(MockIv(e.symbol))
                 iv_percentile ==
                     StoredPercentile(live_percentile, live,
                                      e.previous_day_data)
             IN  StockData(e.symbol, e.ltp, Val(RoundTwo(change_percent)),
                           volume, Rounded(iv),
                           IF iv_percentile.some /\ iv_percentile.v # 0
                           THEN Rounded(iv_percentile) ELSE iv_percentile,
                           SignalOf(change_percent), "") :
               live \in {LiveIv(e.option_chain_data, e.ltp, e.now)}} : TRUE

-----------------------------------------------------------------------------
(* The records the parser is run on *)

MaxLen == 22

Symbols == {"NIFTY", "BANKNIFTY", "RELIANCE", "TCS"}

\* what a JSON field can hold: null, numbers (0, negative, fractional),
\* true/false, strings (empty or not), arrays
FieldValues ==
    {NoneV, IntV(0), IntV(-300), IntV(4500), FloatV(25, 2),
     BoolV(TRUE), BoolV(FALSE), StrV(3), StrV(0), ListV(2), BigIntV}

\* a well-formed vendor record: every position holds its own number
BaseItems(len) == [j \in 1..len |-> IntV(3000 + j)]

Lengths == {0, 12} \cup (19..MaxLen)

ParseCall ==
    /\ p_pc = "idle"
    /\ \E len \in Lengths, isList \in BOOLEAN, symbol \in Symbols :
       \E i1 \in 1..Max(len, 1), i2 \in 1..Max(len, 1) :
       \E v1 \in FieldValues \cup {IntV(3000 + i1)},
          v2 \in FieldValues \cup {IntV(3000 + i2)} :
          /\ i1 <= i2
          /\ isList \/ (i1 = 1 /\ i2 = 1)
          /\ LET base == BaseItems(len)
                 items == [j \in 1..len |->
                             IF j = i2 THEN v2 ELSE IF j = i1 THEN v1 ELSE base[j]]
                 record == [list |-> isList, items |-> items]
             IN  /\ p_record' = record
                 /\ p_symbol' = symbol
                 /\ p_ret' = parse_option_chain_record(record, symbol)
    /\ p_pc' = "done"
    /\ UNCHANGED <<pricing_vars, solver_vars, later_vars>>

ParserIdle ==
    /\ p_pc = "idle"
    /\ p_record = [list |-> TRUE, items |-> <<>>]
    /\ p_symbol = ""
    /\ p_ret = NoQuote

-----------------------------------------------------------------------------
(* The arguments the pricing functions and the solver are run on *)

NumSpots == 2
NumVols == 4

SpotGrid == {k * FxOne : k \in 1..NumSpots}
StrikeGrid == {FxOne \div 2} \cup SpotGrid
\* 0 (expired), 0.005, 0.01, 0.25 and 1 year
TimeGrid == {0, 5000, 10000, 250000, FxOne}
\* 0.065 is the rate extract_iv_from_option_chain uses
RateGrid == {65000, 0}
\* 0.05, 0.25, 0.5, ...
VolGrid == {50000} \cup {k * 250000 : k \in 1..NumVols}
\* observed prices 0, 0.0002, 0.05, 0.5 and 3
PriceGrid == {0, 200, 50000, 500000, 3 * FxOne}
OptionTypes == {"call", "put"}

\* a spot so large that one step of the arithmetic's resolution moves the
\* price by more than the tolerance (1000 in millionths; 10^13 in doubles)
LargeArgs ==
    {[spot |-> 1000 * FxOne, strike |-> 2000 * FxOne, time_to_expiry |-> 5000,
      risk_free_rate |-> 65000, option_price |-> 4668, option_type |-> "call",
      sigma_true |-> 0]}

NoPricingArgs == [spot |-> 0, strike |-> 0, time_to_expiry |-> 0,
                  risk_free_rate |-> 0, volatility |-> 0, option_type |-> ""]

PricingIdle ==
    /\ bs_pc = "idle"
    /\ bs_args = NoPricingArgs
    /\ bs_branch = ""
    /\ bs_price = 0

SolverIdle ==
    /\ iv_pc = "idle"
    /\ iv_args = NoArgs
    /\ cur_volatility = 0
    /\ newton_i = 0
    /\ newton_exit = ""
    /\ vol_low = 0
    /\ vol_high = 0
    /\ bisect_i = 0
    /\ bisect_exit = ""
    /\ iv_ret = NoSolution

\* the chain every record of the model belongs to expires on this day
ExpiryDay == 30
\* the days between two readings of the clock, and the last reading
TickDays == 15
MaxClock == 45

\* a vendor record of 21 fields: symbol "NIFTY", the expiry, a strike and the
\* last traded prices of the call and of the put
Rec(head, expiry, strike, call_ltp, put_ltp) ==
    [list |-> TRUE,
     items |-> [j \in 1..21 |->
                  CASE j = 1 -> head
                    [] j = 2 -> expiry
                    [] j = 12 -> strike
                    [] j = 5 -> call_ltp
                    [] j = 19 -> put_ltp
                    [] OTHER -> IntV(3000 + j)]]

Quote(strike, call_ltp, put_ltp) ==
    Rec(StrV(5), DateStrV(ExpiryDay), strike, call_ltp, put_ltp)

\* the first n fields of a record
Cut(record, n) == [list |-> TRUE, items |-> SubSeq(record.items, 1, n)]

AtTheMoney == Quote(IntV(2), FloatV(5, 100), FloatV(3, 100))
NearTheMoney == Quote(FloatV(41, 20), FloatV(4, 100), NoneV)
FarAbove == Quote(FloatV(5, 2), FloatV(1, 100), IntV(0))
FarBelow == Quote(FloatV(3, 2), StrV(3), FloatV(1, 100))

\* quotes with a usable record: spot 2, 30 days to expiry
\*   AtTheMoney   call 19.5%, put 15.4%       NearTheMoney  call 24.9%
\*   FarAbove     call 51.4%                  FarBelow      put 68.4%
\* then a price above every volatility of the range (267%), one below the
\* price at volatility 0 (the solver stops at 0.1%), one below the
\* intrinsic value (no solution), prices that are no positive number, and
\* the malformed records
GoodRecords == {AtTheMoney, NearTheMoney, FarAbove, FarBelow}

OddRecords ==
    {Quote(IntV(2), FloatV(6, 10), IntV(-1)),
     Quote(IntV(2), FloatV(5, 1000), BoolV(FALSE)),
     Quote(IntV(1), FloatV(1, 2), BoolV(TRUE)),
     Quote(IntV(0), FloatV(5, 100), NoneV),
     Quote(BigIntV, NoneV, FloatV(5, 100))}

MalformedRecords ==
    {Cut(AtTheMoney, 20), Cut(AtTheMoney, 1), Cut(AtTheMoney, 0),
     Quote(StrV(3), FloatV(5, 100), FloatV(3, 100)),
     Quote(NoneV, FloatV(5, 100), FloatV(3, 100)),
     [list |-> FALSE, items |-> <<>>],
     [AtTheMoney EXCEPT !.items[4] = BigIntV]}

\* records whose head is not a symbol and an expiry DD-MM-YYYY
OddHeads ==
    {Rec(StrV(5), StrV(3), IntV(2), FloatV(5, 100), NoneV),
     Rec(StrV(5), StrV(0), IntV(2), FloatV(5, 100), NoneV),
     Rec(StrV(5), IntV(30), IntV(2), FloatV(5, 100), NoneV),
     Rec(ListV(2), DateStrV(ExpiryDay), IntV(2), FloatV(5, 100), NoneV),
     Rec(StrV(9), DateStrV(ExpiryDay), IntV(2), FloatV(5, 100), NoneV)}

Palette == GoodRecords \cup OddRecords \cup MalformedRecords \cup OddHeads

\* the chains: every sequence of up to MaxChain of the records below, every
\* record of the palette alone, before and behind a quote at the money, and
\* the long chains, n quotes at the money followed by one near the money
MaxChain == 2
MaxCopies == 6

ChainRecords ==
    GoodRecords \cup {Quote(IntV(2), FloatV(6, 10), IntV(-1)),
                      Cut(AtTheMoney, 20),
                      Quote(StrV(3), FloatV(5, 100), FloatV(3, 100))}

Chains ==
    UNION {[1..n -> ChainRecords] : n \in 0..MaxChain}
    \cup {<<r>> : r \in Palette}
    \cup {<<r, AtTheMoney>> : r \in Palette}
    \cup {<<AtTheMoney, r>> : r \in Palette}

LongChain(n) == [j \in 1..(n + 1) |-> IF j <= n THEN AtTheMoney ELSE NearTheMoney]

LongChains == {LongChain(n) : n \in 3..MaxCopies}

ListOf(items) == [k |-> "list", items |-> items]

\* 'Records' missing (the default []), null, a string, a number
NoRecordList == {ListOf(<<>>), [k |-> "none", items |-> <<>>],
                 [k |-> "str", items |-> <<>>], [k |-> "int", items |-> <<>>]}

NoDirect == <<Absent, Absent, Absent>>

\* values under 'IV', 'impliedVolatility', 'iv'
DirectValues ==
    {FloatV(37, 2), IntV(0), NoneV, StrV(3), BigIntV, BoolV(TRUE), NumStrV(37, 2)}

Payload(direct, records) == [dict |-> TRUE, direct |-> direct, records |-> records]

NotADict == [dict |-> FALSE, direct |-> NoDirect, records |-> ListOf(<<>>)]

Payloads ==
    {NotADict}
    \cup {Payload(NoDirect, r) : r \in NoRecordList}
    \cup {Payload([NoDirect EXCEPT ![j] = v], ListOf(<<AtTheMoney>>)) :
             j \in 1..3, v \in DirectValues}
    \cup {Payload(<<Absent, IntV(18), IntV(21)>>, ListOf(<<>>)),
          Payload(<<StrV(3), IntV(18), Absent>>, ListOf(<<AtTheMoney>>))}

\* spot_price: a price, then 0, a negative number, null, a string
Spot == IntV(2)
OddSpots == {IntV(0), IntV(-2), NoneV, StrV(3), BigIntV}

AggregatorIdle ==
    /\ clock = 0
    /\ ag_pc = "idle"
    /\ ag_payload = NotADict
    /\ ag_spot = NoneV
    /\ ag_now = 0
    /\ ag_out = Outcome("", Nothing, NoScan)

\* the series of the specification's example, among documents of another
\* symbol and documents with a null iv and with no iv
ExampleStore ==
    <<Doc("NIFTY", 1, IntV(10)), Doc("NIFTY", 2, IntV(15)),
      Doc("BANKNIFTY", 2, IntV(5)), Doc("NIFTY", 3, IntV(20)),
      Doc("NIFTY", 4, IntV(25)), Doc("NIFTY", 5, IntV(30)),
      Doc("NIFTY", 6, NoneV), Doc("NIFTY", 7, Absent),
      Doc("BANKNIFTY", 7, FloatV(37, 2))>>

\* n days of one symbol, the oldest with the lowest iv
History(n) ==
    [j \in 1..n |->
       Doc("NIFTY", j, IF j = 1 THEN IntV(1) ELSE IntV(10 + 10 * (j % 3)))]

\* the documents beyond the limit of the find that the longest history has
MaxBeyond == 1

HistorySizes == {1, 32} \cup {HistoryLimit + k : k \in 0..MaxBeyond}

\* an iv stored as a str that spells a number, as a str that spells none,
\* as true, as an int beyond the floats
OddStores ==
    {<<Doc("NIFTY", 1, IntV(10)), Doc("NIFTY", 2, v)>> :
        v \in {NumStrV(25, 1), StrV(3), BoolV(TRUE), BigIntV, ListV(2)}}

Stores == {ExampleStore} \cup {History(n) : n \in HistorySizes} \cup OddStores

\* current_iv: the values of the example, a value of the series, 0, null,
\* and what is no float
CurrentIvs ==
    {IntV(22), IntV(5), IntV(35), IntV(20), FloatV(37, 2), IntV(0), NoneV,
     StrV(3), BoolV(TRUE), BigIntV}

PercentileIdle ==
    /\ store = <<>>
    /\ pct_pc = "idle"
    /\ pct_db = FALSE
    /\ pct_symbol = ""
    /\ pct_current_iv = NoneV
    /\ pct_out = PctOutcome("", Nothing, 0, 0, <<>>)

\* before the import of api/index.py the module has no name `handler`
IndexIdle ==
    /\ ix_pc = "prelude"
    /\ handler = "undefined"
    /\ app_loaded = FALSE
    /\ ix_trace = <<>>

\* the tasks of a fan-out
NumTasks == 2
TaskIds == 1..NumTasks

\* an invocation of a core operation with its arguments
NoInvocation ==
    [op |-> "", record |-> [list |-> TRUE, items |-> <<>>], symbol |-> "",
     priced |-> NoPricingArgs, solved |-> NoArgs, payload |-> NotADict,
     spot |-> NoneV, current_iv |-> NoneV]

IdleTask ==
    [pc |-> "idle", inv |-> NoInvocation, now |-> 0, docs |-> <<>>,
     ret |-> Nothing]

FanOutIdle == tasks = [t \in TaskIds |-> IdleTask]

\* the symbols of TOP_20_STOCKS the model follows
NumSymbols == 2
Tracked == SubSeq(TOP_20_STOCKS, 1, NumSymbols)

\* what fetch_ltp_spot returns: None or the price
Ltps == {NoneV, FloatV(2, 1), FloatV(41, 20)}

\* what random.uniform(-3.0, 3.0) and random.randint give
MockChanges == {-2500000, 400000}
MockVolume == IntV(1000000)

\* the documents of earlier saves: yesterday's (day 14 when the clock reads
\* 15) behind an older one, a latest one with a null iv, today's, and
\* documents of another symbol
Saved(symbol, date, iv, iv_percentile) ==
    StockDoc(symbol, date, FloatV(19, 10), IntV(1200000), iv, iv_percentile,
             date)

DailyStores ==
    {<<Saved("NIFTY", 3, FloatV(2500, 100), NoneV),
       Saved("NIFTY", 14, FloatV(1850, 100), IntV(50))>>,
     <<Saved("NIFTY", 3, FloatV(2500, 100), NoneV),
       Saved("NIFTY", 9, NoneV, NoneV)>>,
     <<Saved("BANKNIFTY", 14, FloatV(3100, 100), NoneV),
       Saved("NIFTY", 15, FloatV(1234, 100), FloatV(3333, 100))>>}

\* the JSON fetch_option_chain may return: none, an array, a chain without
\* records or with a number for them, a chain a live IV comes from, one
\* nothing can be extracted from, and chains with a top-level IV
FetchChains ==
    {NoChain, Chain(NotADict),
     Chain(Payload(NoDirect, ListOf(<<>>))),
     Chain(Payload(NoDirect, [k |-> "int", items |-> <<>>])),
     Chain(Payload(NoDirect, ListOf(<<AtTheMoney>>))),
     Chain(Payload(NoDirect, ListOf(<<Cut(AtTheMoney, 20)>>))),
     Chain(Payload(<<IntV(0), Absent, Absent>>, ListOf(<<AtTheMoney>>))),
     Chain(Payload(<<Absent, Absent, FloatV(37, 2)>>, ListOf(<<AtTheMoney>>)))}

\* what fetch_ltp_spot returns to the fetches of the dashboard
DashLtps == {NoneV, FloatV(2, 1)}

\* what fetch_option_chain returns to the fetches of the dashboard
DashChains ==
    {NoChain, Chain(NotADict),
     Chain(Payload(NoDirect, ListOf(<<AtTheMoney>>)))}

NoFetch ==
    [symbol |-> "", ltp |-> NoneV, previous_day_data |-> NoDocument,
     option_chain_data |-> NoChain, now |-> 0, db |-> FALSE, docs |-> <<>>,
     mock_change |-> 0, mock_volume |-> NoneV]

FetchIdle ==
    /\ fs_pc = "idle"
    /\ fs_in = NoFetch
    /\ fs_out = FetchFailed("", "")

\* the runs of save_daily_stock_data the model follows
NumRuns == 2
RunIds == 1..NumRuns

\* what fetch_ltp_spot and fetch_option_chain return to a run
SaveLtps == {NoneV, FloatV(2, 1)}
SaveChains == {NoChain, Chain(Payload(NoDirect, ListOf(<<AtTheMoney>>)))}

NoStockDoc == StockDoc("", 0, NoneV, NoneV, NoneV, NoneV, 0)

\* a float, or None, as the document stores it
Stored(x) == IF x.some THEN AsValue(x.v) ELSE NoneV

\* a run: where it stands, the symbol of TOP_20_STOCKS it is at, its
\* date_key, the spot and the iv of the symbol, its stock_doc, and what
\* became of the symbols it is through with
IdleRun ==
    [pc |-> "idle", kind |-> "", i |-> 0, date_key |-> 0, ltp |-> NoneV,
     iv |-> Nothing, doc |-> NoStockDoc, log |-> <<>>]

ServiceIdle ==
    /\ FetchIdle
    /\ sv_runs = [r \in RunIds |-> IdleRun]
    /\ dash_pc = "idle"
    /\ dash_tasks = <<>>
    /\ dash_order = <<>>
    /\ dash_out = <<>>

Init ==
    /\ ParserIdle /\ PricingIdle /\ SolverIdle
    /\ AggregatorIdle /\ PercentileIdle /\ IndexIdle /\ FanOutIdle
    /\ ServiceIdle

ParserNext == ParseCall

SpecParser == Init /\ [][ParserNext]_vars

\* a call of calculate_implied_volatility on an observed price
SolveCall ==
    /\ \E spot \in SpotGrid, strike \in StrikeGrid, t \in TimeGrid,
          r \in RateGrid, price \in PriceGrid, typ \in OptionTypes :
          Enter([spot |-> spot, strike |-> strike, time_to_expiry |-> t,
                 risk_free_rate |-> r, option_price |-> price,
                 option_type |-> typ, sigma_true |-> 0])
    /\ UNCHANGED <<parser_vars, pricing_vars, later_vars>>

SolveLargeCall ==
    /\ \E a \in LargeArgs : Enter(a)
    /\ UNCHANGED <<parser_vars, pricing_vars, later_vars>>

\* a call on the price black_scholes_price gives at a known volatility
RoundTripCall ==
    /\ \E spot \in SpotGrid, strike \in StrikeGrid, t \in TimeGrid,
          r \in RateGrid, sigma \in VolGrid, typ \in OptionTypes :
          Enter([spot |-> spot, strike |-> strike, time_to_expiry |-> t,
                 risk_free_rate |-> r,
                 option_price |->
                    black_scholes_price(spot, strike, t, r, sigma, typ),
                 option_type |-> typ, sigma_true |-> sigma])
    /\ UNCHANGED <<parser_vars, pricing_vars, later_vars>>

SolverNext ==
    \/ SolveCall
    \/ SolveLargeCall
    \/ RoundTripCall
    \/ (NewtonStep /\ UNCHANGED <<parser_vars, pricing_vars, later_vars>>)
    \/ (NewtonExhausted /\ UNCHANGED <<parser_vars, pricing_vars, later_vars>>)
    \/ (BisectionEntry /\ UNCHANGED <<parser_vars, pricing_vars, later_vars>>)
    \/ (BisectionStep /\ UNCHANGED <<parser_vars, pricing_vars, later_vars>>)
    \/ (BisectionExhausted /\ UNCHANGED <<parser_vars, pricing_vars, later_vars>>)

SpecSolver == Init /\ [][SolverNext]_vars

\* arguments of black_scholes_price beyond the solver's: an expiry in the
\* past, a volatility of 0 or below, a negative rate, "CALL" in capitals;
\* at volatility 0.30 the rounding of the two products of the closed form
\* leaves a deep out-of-the-money put just below 0 (in doubles the same
\* happens at -1.1e-16 for spot 2, strike 4, T 0.01, r 0, volatility 0.8355)
PricingTimes == TimeGrid \cup {-10000}
PricingRates == RateGrid \cup {-50000}
PricingVols == VolGrid \cup {0, -200000, 300000}
PricingTypes == OptionTypes \cup {"CALL"}

\* a call of black_scholes_price
PriceCall ==
    /\ bs_pc = "idle"
    /\ \E spot \in SpotGrid, strike \in StrikeGrid, t \in PricingTimes,
          r \in PricingRates, sigma \in PricingVols, typ \in PricingTypes :
          /\ bs_args' = [spot |-> spot, strike |-> strike, time_to_expiry |-> t,
                         risk_free_rate |-> r, volatility |-> sigma,
                         option_type |-> typ]
          /\ bs_branch' = PriceBranch(t, sigma)
          /\ bs_price' = black_scholes_price(spot, strike, t, r, sigma, typ)
    /\ bs_pc' = "done"
    /\ UNCHANGED <<parser_vars, solver_vars, later_vars>>

PricingNext == PriceCall

SpecPricing == Init /\ [][PricingNext]_vars

\* the clock moves on
Tick ==
    /\ ag_pc = "idle"
    /\ clock < MaxClock
    /\ clock' = clock + TickDays
    /\ UNCHANGED <<parser_vars, pricing_vars, solver_vars, aggregator_vars,
                   store, percentile_vars, index_vars, tasks, service_vars>>

Aggregated(payload, spot) ==
    /\ ag_payload' = payload
    /\ ag_spot' = spot
    /\ ag_now' = clock
    /\ ag_out' = extract_iv_from_option_chain(payload, spot, clock)

\* a call of extract_iv_from_option_chain: any chain at the spot, and any
\* payload, short chain or spot
AggregateCall ==
    /\ ag_pc = "idle"
    /\ \/ \E chain \in Chains \cup LongChains :
             Aggregated(Payload(NoDirect, ListOf(chain)), Spot)
       \/ \E payload \in Payloads, spot \in {Spot} \cup OddSpots :
             Aggregated(payload, spot)
       \/ \E record \in Palette, spot \in OddSpots :
             Aggregated(Payload(NoDirect, ListOf(<<record>>)), spot)
    /\ ag_pc' = "done"
    /\ UNCHANGED <<parser_vars, pricing_vars, solver_vars, clock, store,
                   percentile_vars, index_vars, tasks, service_vars>>

AggregatorNext == Tick \/ AggregateCall

SpecAggregator == Init /\ [][AggregatorNext]_vars

\* the collection as earlier days left it
LoadHistory ==
    /\ pct_pc = "idle"
    /\ store = <<>>
    /\ store' \in Stores
    /\ UNCHANGED <<parser_vars, pricing_vars, solver_vars, clock,
                   aggregator_vars, percentile_vars, index_vars, tasks,
                   service_vars>>

\* a call of calculate_iv_percentile
PercentileCall ==
    /\ pct_pc = "idle"
    /\ \E db \in BOOLEAN, symbol \in Symbols, current_iv \in CurrentIvs :
          /\ pct_db' = db
          /\ pct_symbol' = symbol
          /\ pct_current_iv' = current_iv
          /\ pct_out' = calculate_iv_percentile(db, store, symbol, current_iv)
    /\ store' = pct_out'.after
    /\ pct_pc' = "done"
    /\ UNCHANGED <<parser_vars, pricing_vars, solver_vars, clock,
                   aggregator_vars, index_vars, tasks, service_vars>>

PercentileNext == LoadHistory \/ PercentileCall

SpecPercentile == Init /\ [][PercentileNext]_vars

-----------------------------------------------------------------------------
(* The import of api/index.py, block by block.  A block ends "ok", or by   *)
(* an exception: "ImportError", another "Exception", or "SystemExit", the  *)
(* BaseException a backend/server.py that calls sys.exit() raises.         *)

\* the block ix_pc ends by `outcome`, leaving `h` in handler, and the
\* import goes on at `next`
Goes(outcome, h, loaded, next) ==
    /\ ix_trace' = Append(ix_trace, <<ix_pc, outcome>>)
    /\ handler' = h
    /\ app_loaded' = loaded
    /\ ix_pc' = next
    /\ UNCHANGED <<parser_vars, pricing_vars, solver_vars, clock,
                   aggregator_vars, store, percentile_vars, tasks,
                   service_vars>>

\* create_minimal_error_app(...) and Mangum(error_app, lifespan="off"):
\* the handler of the error app, None when the app could not be made, or
\* the exception of the Mangum import or construction
ErrorHandlerOutcomes == {"error_handler", "no_app", "Exception"}

\* lines 12-19: the imports of the module, then handler = None
Prelude ==
    /\ ix_pc = "prelude"
    /\ \/ Goes("ok", "None", FALSE, "step0")
       \/ Goes("Exception", handler, FALSE, "emergency")

\* lines 49-64, Step 0 of create_handler: the import of FastAPI and Mangum;
\* an ImportError leads to the error app, any other exception leaves
\* create_handler and is caught at line 209
Step0 ==
    /\ ix_pc = "step0"
    /\ \/ Goes("ok", handler, FALSE, "paths")
       \/ Goes("Exception", "None", FALSE, "check")
       \/ \E o \in ErrorHandlerOutcomes :
             Goes(<<"ImportError", o>>,
                  IF o = "error_handler" THEN "error_handler" ELSE "None",
                  FALSE, "check")

\* lines 70-89: the paths are resolved, or the error app is returned; an
\* exception of its Mangum reaches the catch-all of line 187
Paths ==
    /\ ix_pc = "paths"
    /\ \/ Goes("ok", handler, FALSE, "load")
       \/ Goes(<<"Exception", "error_handler">>, "error_handler", FALSE, "check")
       \/ Goes(<<"Exception", "no_app">>, "None", FALSE, "check")
       \/ Goes(<<"Exception", "Exception">>, handler, FALSE, "catch_all")

\* lines 91-155: server.py is missing, or is loaded by importlib, or by a
\* direct import after importlib failed; a SystemExit of server.py leaves
\* create_handler and is caught at line 209
Load ==
    /\ ix_pc = "load"
    /\ \/ Goes("missing", handler, FALSE, "step3")
       \/ Goes("Exception", handler, FALSE, "catch_all")
       \/ Goes("importlib", handler, TRUE, "step2")
       \/ Goes(<<"importlib", "SystemExit">>, "None", FALSE, "check")
       \/ Goes(<<"importlib", "Exception", "direct">>, handler, TRUE, "step2")
       \/ Goes(<<"importlib", "Exception", "direct", "Exception">>, handler,
               FALSE, "step3")
       \/ Goes(<<"importlib", "Exception", "direct", "SystemExit">>, "None",
               FALSE, "check")

\* lines 157-168, Step 2: Mangum(app, lifespan="off") on the loaded app
Step2 ==
    /\ ix_pc = "step2"
    /\ app_loaded
    /\ \/ Goes("ok", "real_handler", TRUE, "check")
       \/ Goes("Exception", handler, TRUE, "step3")

\* lines 170-185, Step 3: the error app, None when it cannot be made
Step3 ==
    /\ ix_pc = "step3"
    /\ \E o \in ErrorHandlerOutcomes :
          Goes(o, IF o = "error_handler" THEN "error_handler" ELSE "None",
               app_loaded, "check")

\* lines 187-204: the catch-all of create_handler
CatchAll ==
    /\ ix_pc = "catch_all"
    /\ \E o \in ErrorHandlerOutcomes :
          Goes(o, IF o = "error_handler" THEN "error_handler" ELSE "None",
               app_loaded, "check")

\* what `if handler is None` of line 216 leads to
AfterCheck(h) == IF h = "None" THEN "minimal" ELSE "verify"

\* lines 215-216
Check ==
    /\ ix_pc = "check"
    /\ Goes("ok", handler, app_loaded, AfterCheck(handler))

\* lines 218-234: the minimal app
Minimal ==
    /\ ix_pc = "minimal"
    /\ \/ Goes("ok", "minimal_handler", app_loaded, "verify")
       \/ Goes("Exception", handler, app_loaded, "forced")

\* lines 235-255: the forced import, and handler = None when it fails too
Forced ==
    /\ ix_pc = "forced"
    /\ \/ Goes("ok", "forced_handler", app_loaded, "verify")
       \/ Goes("Exception", "None", app_loaded, "verify")

\* a verification that lets None through
AfterVerifyUnchecked(h) == "imported"

\* lines 261-267: a handler that is None raises RuntimeError, which the
\* except clause of line 269 catches
AfterVerify(h) == IF h = "None" THEN "emergency" ELSE "imported"

Verify ==
    /\ ix_pc = "verify"
    /\ Goes(IF handler = "None" THEN "RuntimeError" ELSE "ok",
            handler, app_loaded, AfterVerify(handler))

\* lines 269-313: the emergency app, and the EmergencyHandler stub when an
\* Exception stops it
Emergency ==
    /\ ix_pc = "emergency"
    /\ \/ Goes("ok", "emergency_handler", app_loaded, "imported")
       \/ Goes("Exception", "EmergencyHandler", app_loaded, "imported")

IndexNext ==
    \/ Prelude \/ Step0 \/ Paths \/ Load \/ Step2 \/ Step3 \/ CatchAll
    \/ Check \/ Minimal \/ Forced \/ Verify \/ Emergency

SpecIndex == Init /\ [][IndexNext]_vars

-----------------------------------------------------------------------------
(* Concurrent invocations of the core operations: the coroutines of one    *)
(* event loop, as asyncio.gather runs them.  A synchronous operation runs  *)
(* from call to return with nothing in between; calculate_iv_percentile    *)
(* is suspended at its await, and the clock and the collection move on     *)
(* while tasks wait.                                                       *)

ParseInvocations ==
    {[NoInvocation EXCEPT !.op = "parse", !.record = r, !.symbol = "NIFTY"] :
        r \in {AtTheMoney, Cut(AtTheMoney, 12)}}

PriceInvocations ==
    {[NoInvocation EXCEPT !.op = "price", !.priced =
        [spot |-> 2 * FxOne, strike |-> 2 * FxOne, time_to_expiry |-> 250000,
         risk_free_rate |-> 65000, volatility |-> 250000, option_type |-> typ]] :
        typ \in OptionTypes}

SolveInvocations ==
    {[NoInvocation EXCEPT !.op = "solve", !.solved =
        [spot |-> 2 * FxOne, strike |-> 2 * FxOne, time_to_expiry |-> 250000,
         risk_free_rate |-> 65000, option_price |-> 50000,
         option_type |-> typ, sigma_true |-> 0]] :
        typ \in OptionTypes}

AggregateInvocations ==
    {[NoInvocation EXCEPT !.op = "aggregate", !.spot = Spot,
                          !.payload = Payload(NoDirect, ListOf(chain))] :
        chain \in {<<AtTheMoney>>}}

PercentileInvocations ==
    {[NoInvocation EXCEPT !.op = "percentile", !.symbol = "NIFTY",
                          !.current_iv = iv] : iv \in {IntV(22)}}

SynchronousInvocations ==
    ParseInvocations \cup PriceInvocations \cup SolveInvocations
    \cup AggregateInvocations

\* what an invocation returns that reads a clock and a collection that
\* were captured once, before any task ran
InvokeStale(inv, now, docs) ==
    CASE inv.op = "parse" ->
           parse_option_chain_record(inv.record, inv.symbol)
      [] inv.op = "price" ->
           black_scholes_price(inv.priced.spot, inv.priced.strike,
                               inv.priced.time_to_expiry,
                               inv.priced.risk_free_rate,
                               inv.priced.volatility, inv.priced.option_type)
      [] inv.op = "solve" -> calculate_implied_volatility(inv.solved)
      [] inv.op = "aggregate" ->
           extract_iv_from_option_chain(inv.payload, inv.spot, 0).ret
      [] inv.op = "percentile" ->
           calculate_iv_percentile(TRUE, <<>>, inv.symbol,
                                   inv.current_iv).ret

\* what an invocation returns: datetime.now() is the clock at the time of
\* the call of extract_iv_from_option_chain, and the find of
\* calculate_iv_percentile reads the collection as it is then
Invoke(inv, now, docs) ==
    CASE inv.op = "parse" ->
           parse_option_chain_record(inv.record, inv.symbol)
      [] inv.op = "price" ->
           black_scholes_price(inv.priced.spot, inv.priced.strike,
                               inv.priced.time_to_expiry,
                               inv.priced.risk_free_rate,
                               inv.priced.volatility, inv.priced.option_type)
      [] inv.op = "solve" -> calculate_implied_volatility(inv.solved)
      [] inv.op = "aggregate" ->
           extract_iv_from_option_chain(inv.payload, inv.spot, now).ret
      [] inv.op = "percentile" ->
           calculate_iv_percentile(TRUE, docs, inv.symbol,
                                   inv.current_iv).ret

FanOutUnchanged ==
    UNCHANGED <<parser_vars, pricing_vars, solver_vars, aggregator_vars,
                percentile_vars, index_vars, service_vars>>

\* asyncio.gather starts the coroutines in the order of its arguments
Started(t) == IF t = 1 THEN TRUE ELSE tasks[t - 1].pc # "idle"

\* a task calls parse, price, solve or aggregate, which returns
Run(t) ==
    /\ tasks[t].pc = "idle"
    /\ Started(t)
    /\ \E inv \in SynchronousInvocations :
          tasks' = [tasks EXCEPT ![t] =
                      [pc |-> "done", inv |-> inv,
                       now |-> IF inv.op = "aggregate" THEN clock ELSE 0,
                       docs |-> <<>>,
                       ret |-> Invoke(inv, clock, store)]]
    /\ UNCHANGED <<clock, store>>
    /\ FanOutUnchanged

\* a task calls calculate_iv_percentile and waits for the find
Await(t) ==
    /\ tasks[t].pc = "idle"
    /\ Started(t)
    /\ \E inv \in PercentileInvocations :
          tasks' = [tasks EXCEPT ![t] = [IdleTask EXCEPT !.pc = "awaiting",
                                                        !.inv = inv]]
    /\ UNCHANGED <<clock, store>>
    /\ FanOutUnchanged

\* the cursor of the find delivers its documents (one batch) and
\* calculate_iv_percentile runs to its return
Resume(t) ==
    /\ tasks[t].pc = "awaiting"
    /\ LET inv == tasks[t].inv
       IN  /\ tasks' = [tasks EXCEPT ![t] =
                         [pc |-> "done", inv |-> inv, now |-> 0,
                          docs |-> store,
                          ret |-> Invoke(inv, clock, store)]]
           /\ store' = calculate_iv_percentile(TRUE, store, inv.symbol,
                                               inv.current_iv).after
    /\ UNCHANGED clock
    /\ FanOutUnchanged

\* the documents save_daily_stock_data may hold before it stops saving
MaxSaved == 2

\* the iv of the day: 10, 25, 40, 55
SavedIv(day) == IntV(10 + day)

\* insert_one(stock_doc)
Inserted(docs, doc) == Append(docs, doc)

\* update_one({"symbol", "date"}, {"$set": stock_doc}, upsert=True)
Upserted(docs, doc) ==
    LET same == {j \in DOMAIN docs :
                   docs[j].symbol = doc.symbol /\ docs[j].date = doc.date}
    IN  IF same = {}
        THEN Append(docs, doc)
        ELSE LET first == CHOOSE j \in same : \A i \in same : j <= i
             IN  [docs EXCEPT ![first] = doc]

\* save_daily_stock_data stores the day's document of a symbol
SaveDaily ==
    /\ store' = Upserted(store, Doc("NIFTY", clock, SavedIv(clock)))
    /\ Len(store') <= MaxSaved
    /\ UNCHANGED <<clock, tasks>>
    /\ FanOutUnchanged

FanOutNext ==
    \/ \E t \in TaskIds : Run(t)
    \/ \E t \in TaskIds : Await(t)
    \/ \E t \in TaskIds : Resume(t)
    \/ Tick
    \/ SaveDaily

SpecFanOut == Init /\ [][FanOutNext]_vars

-----------------------------------------------------------------------------
(* fetch_stock_data against the vendor and the store *)

\* the collection as earlier saves left it
LoadDaily ==
    /\ fs_pc = "idle"
    /\ store = <<>>
    /\ store' \in DailyStores
    /\ UNCHANGED <<parser_vars, pricing_vars, solver_vars, clock,
                   aggregator_vars, percentile_vars, index_vars, tasks,
                   service_vars>>

\* a call of fetch_stock_data: the vendor answers, the db is there or not,
\* and a find_one may raise
FetchStockCall ==
    /\ fs_pc = "idle"
    /\ \E symbol \in {Tracked[i] : i \in DOMAIN Tracked}, ltp \in Ltps,
          chain \in FetchChains, db \in BOOLEAN, raises \in BOOLEAN,
          mock_change \in MockChanges :
          /\ db \/ ~raises
          /\ fs_in' =
               [symbol |-> symbol, ltp |-> ltp,
                previous_day_data |->
                   get_previous_day_data(db, raises, store, symbol, clock),
                option_chain_data |-> chain, now |-> clock, db |-> db,
                docs |-> store, mock_change |-> mock_change,
                mock_volume |-> MockVolume]
    /\ fs_out' = fetch_stock_data(fs_in')
    /\ fs_pc' = "done"
    /\ UNCHANGED <<parser_vars, pricing_vars, solver_vars, clock,
                   aggregator_vars, store, percentile_vars, index_vars, tasks,
                   sv_runs, dash_pc, dash_tasks, dash_order, dash_out>>

FetchNext == LoadDaily \/ Tick \/ FetchStockCall

SpecFetch == Init /\ [][FetchNext]_vars

-----------------------------------------------------------------------------
(* save_daily_stock_data, run from the manual route and from the scheduler *)

SaveUnchanged ==
    UNCHANGED <<parser_vars, pricing_vars, solver_vars, aggregator_vars,
                percentile_vars, index_vars, tasks, clock, fs_pc, fs_in,
                fs_out, dash_pc, dash_tasks, dash_order, dash_out>>

\* the runs are told apart by the order they start in
RunStarted(r) == IF r = 1 THEN TRUE ELSE sv_runs[r - 1].pc # "idle"

\* lines 847-853 and 1309-1318: the run starts, from the route or from the
\* scheduler; without db, or without a token for the scheduler, nothing
\* is saved
StartSave(r) ==
    /\ sv_runs[r].pc = "idle"
    /\ RunStarted(r)
    /\ \E kind \in {"manual", "scheduled"}, db \in BOOLEAN, token \in BOOLEAN :
          /\ db \/ store = <<>>
          /\ token \/ kind = "scheduled"
          /\ sv_runs' = [sv_runs EXCEPT ![r] =
                           [IdleRun EXCEPT
                              !.kind = kind,
                              !.pc = IF db /\ token THEN "fetch" ELSE "done",
                              !.i = IF db /\ token THEN 1 ELSE 0,
                              !.date_key = get_date_key(clock)]]
    /\ UNCHANGED store
    /\ SaveUnchanged

\* the loop of line 857 goes on to the next symbol, or ends
NextSymbol(run, outcome) ==
    [run EXCEPT !.pc = IF run.i = NumSymbols THEN "done" ELSE "fetch",
                !.i = IF run.i = NumSymbols THEN run.i ELSE run.i + 1,
                !.ltp = NoneV, !.iv = Nothing, !.doc = NoStockDoc,
                !.log = Append(run.log, outcome)]

\* lines 873-884: the iv of the chain, the mock value when there is none
SavedIvOf(chain, ltp, symbol, now) ==
    IF ~chain.some THEN Val(MockIv(symbol))
    ELSE CHOOSE iv \in
           {IF live.some THEN live ELSE Val(MockIv(symbol)) :
              live \in {extract_iv_from_option_chain(chain.payload, ltp,
                                                     now).ret}} : TRUE

\* lines 865-884: the vendor answers for the spot and for the chain
FetchForSave(r) ==
    /\ sv_runs[r].pc = "fetch"
    /\ \E ltp \in SaveLtps, chain \in SaveChains :
          LET run == sv_runs[r]
          IN  sv_runs' = [sv_runs EXCEPT ![r] =
                            IF ltp.k = "none" THEN NextSymbol(run, "no_spot")
                            ELSE [run EXCEPT
                                    !.pc = "rank", !.ltp = ltp,
                                    !.iv = SavedIvOf(chain, ltp,
                                                     Tracked[run.i], clock)]]
    /\ UNCHANGED store
    /\ SaveUnchanged

\* lines 887-901: the percentile of the iv in the store as it is, and the
\* stock_doc
RankForSave(r) ==
    /\ sv_runs[r].pc = "rank"
    /\ LET run == sv_runs[r]
           symbol == Tracked[run.i]
           iv_percentile ==
               calculate_iv_percentile(TRUE, store, symbol,
                                       AsValue(run.iv.v)).ret
       IN  sv_runs' = [sv_runs EXCEPT ![r] =
                         [@ EXCEPT !.pc = "upsert",
                                   !.doc = StockDoc(symbol, run.date_key,
                                                    run.ltp, MockVolume,
                                                    Stored(RoundedOrNone(run.iv)),
                                                    Stored(RoundedOrNone(iv_percentile)),
                                                    clock)]]
    /\ UNCHANGED store
    /\ SaveUnchanged

\* lines 904-912: the upsert, or its exception, caught for the symbol
UpsertDoc(r) ==
    /\ sv_runs[r].pc = "upsert"
    /\ \E raises \in BOOLEAN :
          IF raises
          THEN /\ sv_runs' = [sv_runs EXCEPT ![r] = NextSymbol(@, "raised")]
               /\ UNCHANGED store
          ELSE /\ sv_runs' = [sv_runs EXCEPT ![r] = NextSymbol(@, "saved")]
               /\ store' = Upserted(store, sv_runs[r].doc)
    /\ SaveUnchanged

\* the day turns once while the runs are followed
DayTurns ==
    /\ clock < TickDays
    /\ Tick

SaveNext ==
    \/ \E r \in RunIds : StartSave(r)
    \/ \E r \in RunIds : FetchForSave(r)
    \/ \E r \in RunIds : RankForSave(r)
    \/ \E r \in RunIds : UpsertDoc(r)
    \/ DayTurns

SpecSave == Init /\ [][SaveNext]_vars

-----------------------------------------------------------------------------
(* get_dashboard_data: the fetches of the symbols, gathered *)

DashUnchanged ==
    UNCHANGED <<parser_vars, pricing_vars, solver_vars, aggregator_vars,
                percentile_vars, index_vars, tasks, clock, fs_pc, fs_in,
                fs_out, sv_runs>>

\* line 1146: one fetch_stock_data per symbol, in the order of the list
StartDashboard ==
    /\ dash_pc = "idle"
    /\ dash_tasks' = [i \in 1..NumSymbols |->
                        [pc |-> "spot", e |-> [NoFetch EXCEPT !.symbol = Tracked[i]],
                         out |-> FetchFailed("", "")]]
    /\ dash_order' = <<>>
    /\ dash_out' = <<>>
    /\ dash_pc' = "gathering"
    /\ UNCHANGED store
    /\ DashUnchanged

\* the fetch is over: its StockData, and its place in the order of completion
Completed(i, e) ==
    /\ dash_tasks' = [dash_tasks EXCEPT ![i] =
                        [pc |-> "done", e |-> e, out |-> fetch_stock_data(e)]]
    /\ dash_order' = Append(dash_order, i)

\* lines 977-987: fetch_ltp_spot answers the fetch of a symbol; without a
\* spot the fetch is over
SpotAnswers(i) ==
    /\ dash_pc = "gathering"
    /\ dash_tasks[i].pc = "spot"
    /\ \E ltp \in DashLtps :
          LET e == [dash_tasks[i].e EXCEPT !.ltp = ltp]
          IN  IF ltp.k = "none"
              THEN Completed(i, e)
              ELSE /\ dash_tasks' = [dash_tasks EXCEPT ![i] =
                                       [pc |-> "rest", e |-> e,
                                        out |-> FetchFailed("", "")]]
                   /\ UNCHANGED dash_order
    /\ UNCHANGED <<store, dash_pc, dash_out>>
    /\ DashUnchanged

\* lines 989-1085: the store and the vendor answer, and the fetch returns
\* its StockData, one with the error of an exception included
FetchCompletes(i) ==
    /\ dash_pc = "gathering"
    /\ dash_tasks[i].pc = "rest"
    /\ \E chain \in DashChains, mock_change \in MockChanges :
          Completed(i, [dash_tasks[i].e EXCEPT
                          !.previous_day_data =
                             get_previous_day_data(TRUE, FALSE, store,
                                                   dash_tasks[i].e.symbol,
                                                   clock),
                          !.option_chain_data = chain, !.now = clock,
                          !.db = TRUE, !.docs = store,
                          !.mock_change = mock_change,
                          !.mock_volume = MockVolume])
    /\ UNCHANGED <<store, dash_pc, dash_out>>
    /\ DashUnchanged

\* the results in the order the fetches were over
ResultsAsCompleted(done, order) == [k \in DOMAIN order |-> done[order[k]].out]

\* the list asyncio.gather returns: the results in the order of its arguments
GatherResults(done, order) == [i \in DOMAIN done |-> done[i].out]

\* lines 1149-1157: every fetch is over, and the response carries the list
Gathered ==
    /\ dash_pc = "gathering"
    /\ \A i \in DOMAIN dash_tasks : dash_tasks[i].pc = "done"
    /\ dash_out' = GatherResults(dash_tasks, dash_order)
    /\ dash_pc' = "done"
    /\ UNCHANGED <<store, dash_tasks, dash_order>>
    /\ DashUnchanged

DashboardNext ==
    \/ LoadDaily
    \/ StartDashboard
    \/ \E i \in 1..NumSymbols : SpotAnswers(i)
    \/ \E i \in 1..NumSymbols : FetchCompletes(i)
    \/ Gathered

SpecDashboard == Init /\ [][DashboardNext]_vars

-----------------------------------------------------------------------------
(* Claims about the parser, checked under SpecParser *)

ParsedOk == p_pc = "done" /\ p_ret.some

\* the record's field at Python index i, when the call has been made
Field(i) == At(p_record.items, i)

\* a number in the sense of the vendor format: a JSON number
IsJsonNumber(v) == v.k \in {"int", "float", "bigint"}

\* C1: the parser returns null for every record that has fewer than 21
\* fields and for every record whose strike field (index 11) is missing or
\* not numeric.
C1_MalformedGivesNull ==
    p_pc = "done" =>
      (  (\/ Len(p_record.items) < 21
          \/ Field(11).k = "none"
          \/ ~IsJsonNumber(Field(11)))
      => (~p_ret.some /\ ~p_ret.raised))

\* the normalized field `f` is null or the quotient of `raw` by `lot`
FromRaw(f, raw, lot) ==
    \/ f = NoneV
    \/ /\ f.k = "float"
       /\ raw.k \in {"int", "float", "bool"}
       /\ f.n * raw.d * lot = raw.n * f.d

\* C2: every accepted record gives a quote whose fields come from the fixed
\* positions of the vendor format: strike 11; call OI 3, LTP 4, bid 5, bid
\* qty 6, ask 7, ask qty 8, volume 9; put bid 12, bid qty 13, ask 14, ask
\* qty 15, OI 16, LTP 18, volume 19.
C2_FixedPositions ==
    ParsedOk =>
      LET q == p_ret.quote
          lot == get_lot_size(p_symbol)
      IN  /\ q.strike = Field(11)
          /\ q.call.ltp = Field(4) /\ q.call.bid = Field(5)
          /\ q.call.bid_qty = Field(6) /\ q.call.ask = Field(7)
          /\ q.call.ask_qty = Field(8)
          /\ FromRaw(q.call.oi, Field(3), lot)
          /\ FromRaw(q.call.volume, Field(9), lot)
          /\ (Truthy(Field(3)) => q.call.oi # NoneV)
          /\ (Truthy(Field(9)) => q.call.volume # NoneV)
          /\ q.put.bid = Field(12) /\ q.put.bid_qty = Field(13)
          /\ q.put.ask = Field(14) /\ q.put.ask_qty = Field(15)
          /\ q.put.ltp = Field(18)
          /\ FromRaw(q.put.oi, Field(16), lot)
          /\ FromRaw(q.put.volume, Field(19), lot)
          /\ (Truthy(Field(16)) => q.put.oi # NoneV)
          /\ (Truthy(Field(19)) => q.put.volume # NoneV)

\* an accepted record whose 21 positions hold 21 different numbers, the
\* volume positions 9 and 10 among them
C2_Witness ==
    /\ ParsedOk
    /\ Len(p_record.items) = 21
    /\ \A i \in 0..20 : Field(i) = IntV(3001 + i)
    /\ p_ret.quote.call.volume # NoneV

\* the lot sizes the specification states
SpecLotSize(symbol) ==
    IF symbol = "NIFTY" THEN 50 ELSE IF symbol = "BANKNIFTY" THEN 15 ELSE 500

\* the normalized field `f` is exactly raw / lot
IsQuotient(f, raw, lot) ==
    f.k = "float" /\ f.n * raw.d * lot = raw.n * f.d

\* C3: for every accepted record and every symbol each of the four
\* normalized fields (call OI, call volume, put OI, put volume) equals its
\* raw number divided by the lot size (50 NIFTY, 15 BANKNIFTY, 500
\* otherwise); LTP, bid, ask and quantity fields are passed through.
C3_DividedByLotSize ==
    ParsedOk =>
      LET q == p_ret.quote
          lot == SpecLotSize(p_symbol)
      IN  /\ IsJsonNumber(Field(3)) => IsQuotient(q.call.oi, Field(3), lot)
          /\ IsJsonNumber(Field(9)) => IsQuotient(q.call.volume, Field(9), lot)
          /\ IsJsonNumber(Field(16)) => IsQuotient(q.put.oi, Field(16), lot)
          /\ IsJsonNumber(Field(19)) => IsQuotient(q.put.volume, Field(19), lot)
          /\ q.call.ltp = Field(4) /\ q.call.bid = Field(5)
          /\ q.call.bid_qty = Field(6) /\ q.call.ask = Field(7)
          /\ q.call.ask_qty = Field(8)
          /\ q.put.bid = Field(12) /\ q.put.bid_qty = Field(13)
          /\ q.put.ask = Field(14) /\ q.put.ask_qty = Field(15)
          /\ q.put.ltp = Field(18)

NullOrNumber(v) == v.k \in {"none", "int", "float", "bool", "bigint"}

\* C4: normalization never raises: with at least 21 fields and a numeric
\* strike, a null raw OI or volume gives a null normalized field and the
\* rest of the quote is still returned; a lot size <= 0 gives null, not a
\* division error.
C4_NormalizationNeverRaises ==
    /\ p_pc = "done" => ~p_ret.raised
    /\ (/\ p_pc = "done" /\ p_record.list /\ Len(p_record.items) >= 21
        /\ IsIntOrFloat(Field(11))
        /\ \A i \in {3, 9, 16, 19} : NullOrNumber(Field(i)))
       => /\ p_ret.some
          /\ Field(3).k = "none" => p_ret.quote.call.oi = NoneV
          /\ Field(9).k = "none" => p_ret.quote.call.volume = NoneV
          /\ Field(16).k = "none" => p_ret.quote.put.oi = NoneV
          /\ Field(19).k = "none" => p_ret.quote.put.volume = NoneV
    /\ \A lot \in {-50, 0} : \A raw \in FieldValues :
          Normalize(raw, lot) = NoneV

\* a quote returned with a null call OI next to a call volume that is not
C4_Witness ==
    /\ ParsedOk
    /\ Field(3).k = "none"
    /\ p_ret.quote.call.oi = NoneV
    /\ p_ret.quote.call.volume # NoneV
    /\ p_ret.quote.strike = Field(11)

-----------------------------------------------------------------------------
(* Claims about black_scholes_price, checked under SpecPricing *)

\* the closed form the call would evaluate, before the floor at 0
BsClosedForm ==
    ClosedForm(bs_args.spot, bs_args.strike, bs_args.time_to_expiry,
               bs_args.risk_free_rate, bs_args.volatility, bs_args.option_type)

\* C5: whenever time_to_expiry <= 0 or volatility <= 0, black_scholes_price
\* returns exactly the intrinsic value, max(spot - strike, 0) for a call and
\* max(strike - spot, 0) for a put, for every spot, strike and rate, and
\* returns before the d1/d2 formula is evaluated.
C5_DegenerateGivesIntrinsic ==
    (bs_pc = "done" /\ (bs_args.time_to_expiry <= 0 \/ bs_args.volatility <= 0))
    => /\ bs_branch \in {"expired", "no_volatility"}
       /\ bs_price = (IF bs_args.option_type \in {"call", "CALL"}
                      THEN Max(bs_args.spot - bs_args.strike, 0)
                      ELSE Max(bs_args.strike - bs_args.spot, 0))

\* a put priced at volatility 0 before its expiry, in the money, whose
\* intrinsic value differs from what the closed form would give
C5_Witness ==
    /\ bs_pc = "done"
    /\ bs_args.time_to_expiry > 0 /\ bs_args.volatility = 0
    /\ bs_args.option_type = "put"
    /\ bs_branch = "no_volatility"
    /\ bs_price = bs_args.strike - bs_args.spot /\ bs_price > 0
    /\ BsClosedForm # bs_price

\* C6: for positive spot, strike, time_to_expiry and volatility and any
\* rate, black_scholes_price returns a value >= 0, for the call and for the
\* put (the closed form is floored at 0).
C6_PriceNonNegative ==
    (/\ bs_pc = "done"
     /\ bs_args.spot > 0 /\ bs_args.strike > 0
     /\ bs_args.time_to_expiry > 0 /\ bs_args.volatility > 0)
    => bs_price >= 0

\* a price where the floor acts: the closed form is below 0 and 0 is returned
C6_Witness ==
    /\ bs_pc = "done"
    /\ bs_branch = "formula"
    /\ BsClosedForm < 0
    /\ bs_price = 0

-----------------------------------------------------------------------------
(* Claims about calculate_implied_volatility, checked under SpecSolver *)

\* C7: every non-null result of calculate_implied_volatility lies in
\* [0.001, 5.0], from the Newton-Raphson loop and from the bisection
\* fallback alike; the only other outcome is null.
C7_ResultInRange ==
    iv_pc = "done" =>
      \/ iv_ret = [some |-> FALSE, v |-> 0]
      \/ (iv_ret.some /\ 1000 <= iv_ret.v /\ iv_ret.v <= 5 * FxOne)

\* a price above every model price: the Newton-Raphson iterate is clamped
\* at 5.0 twice in a row and 5.0 is returned
C7_Witness ==
    /\ iv_pc = "done"
    /\ newton_exit = "converged"
    /\ iv_args.option_price > PriceAt(iv_args, 5 * FxOne)
    /\ iv_ret = [some |-> TRUE, v |-> 5 * FxOne]

\* the call is a round trip at a sigma_true in [0.05, 1.0] before expiry
IsRoundTrip ==
    /\ iv_pc = "done"
    /\ iv_args.time_to_expiry > 0
    /\ 50000 <= iv_args.sigma_true /\ iv_args.sigma_true <= FxOne

Recovered ==
    iv_ret.some /\ Abs(iv_ret.v - iv_args.sigma_true) <= 1000

FallbackChecked ==
    newton_exit \in {"vega_zero", "exhausted"} /\ iv_pc \in {"bisection", "done"}

\* C9: the bisection fallback returns null whenever the observed price is
\* below the model price at volatility 0.001 or above the model price at
\* volatility 5.0, and then performs no bisection iteration.
C9_OutOfRangeGivesNull ==
    (/\ FallbackChecked
     /\ \/ iv_args.option_price < PriceAt(iv_args, 1000)
        \/ iv_args.option_price > PriceAt(iv_args, 5 * FxOne))
    => /\ iv_pc = "done"
       /\ iv_ret = [some |-> FALSE, v |-> 0]
       /\ bisect_i = 0

\* a price above the model price at volatility 5.0 reaches the fallback
\* (vega is 0.0 at the first guess) and is turned down
C9_Witness ==
    /\ iv_pc = "done"
    /\ newton_exit = "vega_zero"
    /\ bisect_exit = "out_of_range"
    /\ iv_args.option_price > PriceAt(iv_args, 5 * FxOne)
    /\ iv_ret = [some |-> FALSE, v |-> 0]

\* how far a call has come: its phase, and the iterations of that phase
Progress ==
    CASE iv_pc = "idle" -> 0
      [] iv_pc = "newton" -> 1 + newton_i
      [] iv_pc = "bisection_entry" -> 102
      [] iv_pc = "bisection" -> 103 + bisect_i
      [] iv_pc = "done" -> 204

\* C10: calculate_implied_volatility always terminates; it performs at most
\* 100 Newton-Raphson iterations followed by at most 100 bisection
\* iterations, for every input, and then returns a value or null.  Stated
\* as: the two counters never pass 100, no bisection iteration precedes the
\* end of the Newton-Raphson loop, and every step of a call moves Progress
\* up, which ends at 204 with the call returned.
C10_Terminates ==
    /\ [](newton_i <= 100 /\ bisect_i <= 100 /\ Progress <= 204)
    /\ [](bisect_i > 0 => iv_pc \in {"bisection", "done"})
    /\ [][Progress' > Progress]_vars

\* a call that used all 100 Newton-Raphson iterations, fell back to the
\* bisection and returned
C10_Witness ==
    /\ iv_pc = "done"
    /\ newton_exit = "exhausted"
    /\ newton_i = 100
    /\ bisect_exit # ""

-----------------------------------------------------------------------------
(* Claims about extract_iv_from_option_chain, checked under SpecAggregator *)

\* the call went through its loop over the records
Scanned == ag_pc = "done" /\ ag_out.path \in {"no_candidates", "average", "closest"}

AgRecords == ag_payload.records.items
AgSymbol == AgRecords[1].items[1]
AgParsed(rec) == ParseWith(AgRecords[rec], AgSymbol)
AgTime == calculate_time_to_expiry(ExpiryDay, ag_now)

\* the last traded price of a side of the quote of record `rec`
SideLtp(rec, side) ==
    IF side = "call" THEN AgParsed(rec).quote.call.ltp
    ELSE AgParsed(rec).quote.put.ltp

\* a price that is there and above 0 (the JSON true counts as the number 1)
PresentAndPositive(ltp) == ltp.k \in {"int", "float", "bool"} /\ ltp.n > 0

\* what the solver returns for a side, at the rate 6.5%
SolverSays(rec, side) ==
    calculate_implied_volatility(
        [spot |-> ToFx(ag_spot), strike |-> ToFx(AgParsed(rec).quote.strike),
         time_to_expiry |-> AgTime, risk_free_rate |-> 65000,
         option_price |-> ToFx(SideLtp(rec, side)), option_type |-> side,
         sigma_true |-> 0])

IsCandidate(rec, side) ==
    \E j \in DOMAIN ag_out.options :
       ag_out.options[j].rec = rec /\ ag_out.options[j].side = side

\* C11: a side (call or put) of a parsed quote contributes a candidate IV if
\* and only if its LTP is present and positive, the solver returns a
\* non-null volatility for it, and that volatility lies in [0.05, 2.0]; the
\* candidate carries the solver's volatility, and nothing else enters the
\* aggregation.
C11_CandidateIffPlausible ==
    Scanned =>
      /\ \A rec \in DOMAIN AgRecords : \A side \in {"call", "put"} :
           AgParsed(rec).some =>
             IF PresentAndPositive(SideLtp(rec, side))
             THEN LET iv == SolverSays(rec, side)
                  IN  IF iv.some /\ iv.v >= 50000 /\ iv.v <= 2 * FxOne
                      THEN \E j \in DOMAIN ag_out.options :
                              ag_out.options[j] =
                                 [rec |-> rec, side |-> side, iv |-> iv.v,
                                  diff |-> ag_out.options[j].diff]
                      ELSE ~IsCandidate(rec, side)
             ELSE ~IsCandidate(rec, side)
      /\ \A j \in DOMAIN ag_out.options :
           /\ ag_out.options[j].rec \in DOMAIN AgRecords
           /\ AgParsed(ag_out.options[j].rec).some

\* a chain where one side became a candidate, one side has a price whose
\* volatility is above 200%, one side has a price with no solution and one
\* side has no positive price
C11_Witness ==
    /\ Scanned
    /\ Len(ag_out.options) = 2
    /\ \E j \in DOMAIN ag_out.calls :
          ag_out.calls[j].out.some /\ ag_out.calls[j].out.v > 2 * FxOne
    /\ \E rec \in DOMAIN AgRecords :
          AgParsed(rec).some /\ ~PresentAndPositive(SideLtp(rec, "put"))

\* the candidates of the call, in the order of the scan
Candidates == ag_out.options

\* |strike - spot| / spot < 0.05, for a spot above 0
InBand(o) == o.diff * 20 < ToFx(ag_spot)

InBandCandidates == {j \in DOMAIN Candidates : InBand(Candidates[j])}

\* candidate j is one of the ten closest to the spot, a tie going to the
\* candidate scanned first
AmongTenClosest(j) ==
    Cardinality({i \in DOMAIN Candidates :
                    \/ Candidates[i].diff < Candidates[j].diff
                    \/ Candidates[i].diff = Candidates[j].diff /\ i < j}) < 10

RECURSIVE SumOver(_)
SumOver(js) ==
    IF js = {} THEN 0
    ELSE LET pick == CHOOSE x \in js : TRUE
         IN  Candidates[pick].iv + SumOver(js \ {pick})

\* the returned percentage is the mean of the candidates js, times 100, to
\* the 0.005 a rounding to 2 decimals moves it by
IsMeanOf(js) ==
    /\ ag_out.ret.some
    /\ ag_out.ret.v % 10000 = 0
    /\ Abs(ag_out.ret.v * Cardinality(js) - 100 * SumOver(js))
          <= 5050 * Cardinality(js)

\* C12 (as claimed): when at least one candidate lies within 5% of spot, the
\* aggregated IV equals the arithmetic mean of the IVs of ALL candidates
\* within that band, multiplied by 100 and rounded to 2 decimals, however
\* many candidates the chain yields.
C12_MeanOfAllInBand ==
    (Scanned /\ InBandCandidates # {}) => IsMeanOf(InBandCandidates)

\* C12 (amended): when at least one candidate lies within 5% of spot, the
\* aggregated IV equals the arithmetic mean of the IVs of the candidates
\* within that band that are among the 10 candidates closest to spot,
\* multiplied by 100 and rounded to 2 decimals.
C12_MeanOfInBandAmongTenClosest ==
    (Scanned /\ InBandCandidates # {})
    => IsMeanOf({j \in InBandCandidates : AmongTenClosest(j)})

\* eleven candidates within the band: ten at the money, and one near the
\* money that the mean leaves out
C12_Witness ==
    /\ Scanned
    /\ Cardinality(InBandCandidates) = 11
    /\ \E j \in InBandCandidates : ~AmongTenClosest(j)
    /\ IsMeanOf({j \in InBandCandidates : AmongTenClosest(j)})
    /\ ~IsMeanOf(InBandCandidates)

\* candidate j is the closest to the spot, the first scanned among equals
IsClosest(j) ==
    \A i \in DOMAIN Candidates :
       \/ Candidates[j].diff < Candidates[i].diff
       \/ Candidates[j].diff = Candidates[i].diff /\ j <= i

\* C13: when no candidate lies within 5% of spot, the aggregated IV is the
\* IV (x100, rounded to 2 decimals) of the single candidate with the
\* smallest |strike - spot|, ties being resolved in favour of the candidate
\* scanned first; when there are no candidates at all the result is null.
C13_ClosestOrNull ==
    Scanned =>
      /\ (Candidates # <<>> /\ InBandCandidates = {})
           => \E j \in DOMAIN Candidates : IsClosest(j) /\ IsMeanOf({j})
      /\ Candidates = <<>> => ~ag_out.ret.some

\* two candidates at the same distance outside the band, with different
\* IVs: the result is the IV of the one scanned first
C13_Witness ==
    /\ Scanned
    /\ Len(Candidates) = 2
    /\ InBandCandidates = {}
    /\ Candidates[1].diff = Candidates[2].diff
    /\ Candidates[1].side = "put"
    /\ IsMeanOf({1}) /\ ~IsMeanOf({2})

\* a record that is too short, or whose strike is no number
IsMalformed(r) ==
    r.list /\ (Len(r.items) < 21 \/ r.items[12].k \in {"none", "str", "list"})

WellFormedOnly(records) == SelectSeq(records, LAMBDA r : ~IsMalformed(r))

\* the call was given a list of records to work from
GivenRecords ==
    /\ ag_pc = "done"
    /\ ag_payload.dict
    /\ ag_payload.direct = NoDirect
    /\ ag_payload.records.k = "list"

\* C16: a malformed record (too short, or with a non-numeric strike) at any
\* position of the chain, including the first, is skipped: the aggregated IV
\* is the one the remaining records give without it.
C16_MalformedSkipped ==
    GivenRecords =>
       ag_out.ret =
          extract_iv_from_option_chain(
             Payload(NoDirect, ListOf(WellFormedOnly(AgRecords))),
             ag_spot, ag_now).ret

\* C17: the core never raises on bad input data: for every chain payload
\* and every spot value, parse_option_chain_record and
\* extract_iv_from_option_chain return a value or null and no exception
\* propagates to the caller.
C17_CoreNeverRaises ==
    /\ p_pc = "done" => ~p_ret.raised
    /\ ag_pc = "done" => ag_out.ret.exc = ""

-----------------------------------------------------------------------------
(* Claims about calculate_iv_percentile, checked under SpecPercentile *)

IsNumber(v) == v.k \in {"int", "float"}

\* the documents of the symbol that hold an iv
OfSymbol == {j \in DOMAIN store : store[j].symbol = pct_symbol
                                   /\ store[j].iv.k \notin {"absent", "none"}}

\* the historical series: the iv of the HistoryLimit latest of them
Series ==
    {j \in OfSymbol :
       Cardinality({i \in OfSymbol : store[i].date > store[j].date}) < 252}

\* a / b < c / d for denominators above 0
FractionLess(a, b, c, d) == a * d < c * b

StrictlyBelow ==
    {j \in Series : FractionLess(store[j].iv.n, store[j].iv.d,
                                 pct_current_iv.n, pct_current_iv.d)}

\* the call had a series of numbers and a number to rank in it
Ranked ==
    /\ pct_pc = "done"
    /\ pct_db
    /\ IsNumber(pct_current_iv)
    /\ Series # {}
    /\ \A j \in Series : IsNumber(store[j].iv)

\* C14: for a non-empty historical series and a non-null current IV, the
\* percentile equals 100 x (number of historical values strictly less than
\* current_iv) / (number of historical values), rounded to 2 decimals; values
\* equal to current_iv are not counted as below.
C14_PercentileIsShareBelow ==
    Ranked =>
      /\ pct_out.ret.some
      /\ pct_out.ret.v % 10000 = 0
      /\ 2 * Abs((pct_out.ret.v \div 10000) * Cardinality(Series)
                   - 10000 * Cardinality(StrictlyBelow))
            <= Cardinality(Series)

\* the series [10, 15, 20, 25, 30] with current_iv 20: two values are below,
\* the equal one is not, the percentile is 40.0
C14_Witness ==
    /\ Ranked
    /\ store = ExampleStore
    /\ pct_current_iv = IntV(20)
    /\ Cardinality(Series) = 5
    /\ pct_out.ret = Val(40 * FxOne)

\* C15: the percentile calculation returns null when the historical series
\* is empty or when current_iv is null, and never divides by a zero count.
C15_NullWithoutSeries ==
    pct_pc = "done" =>
      /\ (Series = {} \/ pct_current_iv = NoneV) => ~pct_out.ret.some
      /\ pct_out.path # "zero_division"
      /\ pct_out.path = "computed" => pct_out.total_days > 0

\* a call with the store connected, documents in it, a current_iv, and no
\* document of the symbol: the result is null
C15_Witness ==
    /\ pct_pc = "done"
    /\ pct_db
    /\ store # <<>>
    /\ IsNumber(pct_current_iv)
    /\ Series = {}
    /\ pct_out.path = "no_history"
    /\ ~pct_out.ret.some

\* C19: computing an IV percentile leaves the historical IV series
\* unchanged: calculate_iv_percentile only reads the store (a find limited
\* to the 252 most recent records of the symbol) and performs no insert,
\* update or delete, on success and on every error path.
C19_StoreOnlyRead ==
    /\ [][pct_pc' # pct_pc => store' = store]_vars
    /\ [](pct_pc = "done" => (pct_out.after = store /\ pct_out.total_days <= 252))

\* a call that ranked a current_iv in a series cut at the limit, with the
\* store holding more documents of the symbol than that
C19_Witness ==
    /\ pct_pc = "done"
    /\ pct_out.path = "computed"
    /\ pct_out.total_days = 252
    /\ Cardinality(OfSymbol) > 252
    /\ pct_out.after = store

-----------------------------------------------------------------------------
(* Claim about api/index.py, checked under SpecIndex *)

\* the blocks that ended by an exception
FailedBlocks == {j \in DOMAIN ix_trace : ix_trace[j][2] # "ok"}

\* C20: after api/index.py has been imported, the module-level name
\* `handler` is always defined and is never None, whichever initialization
\* step fails.
C20_HandlerAlwaysDefined ==
    ix_pc = "imported" => handler \notin {"undefined", "None"}

\* an import in which create_handler returned None, the minimal app and the
\* forced import failed, and the emergency app failed too: handler is the
\* EmergencyHandler stub
C20_Witness ==
    /\ ix_pc = "imported"
    /\ handler = "EmergencyHandler"
    /\ Cardinality(FailedBlocks) >= 5
    /\ \E j \in DOMAIN ix_trace : ix_trace[j] = <<"verify", "RuntimeError">>

-----------------------------------------------------------------------------
(* Claim about concurrent invocations, checked under SpecFanOut *)

Done == {t \in TaskIds : tasks[t].pc = "done"}

Alone(inv, now, docs) ==
    CASE inv.op = "parse" -> parse_option_chain_record(inv.record, inv.symbol)
      [] inv.op = "price" ->
           black_scholes_price(inv.priced.spot, inv.priced.strike,
                               inv.priced.time_to_expiry,
                               inv.priced.risk_free_rate,
                               inv.priced.volatility, inv.priced.option_type)
      [] inv.op = "solve" -> calculate_implied_volatility(inv.solved)
      [] inv.op = "aggregate" ->
           extract_iv_from_option_chain(inv.payload, inv.spot, now).ret
      [] inv.op = "percentile" ->
           calculate_iv_percentile(TRUE, docs, inv.symbol, inv.current_iv).ret

\* a step of a task leaves the clock and the collection as they are
TaskStepsWriteNothing ==
    (\E t \in TaskIds : tasks'[t].pc # tasks[t].pc)
       => (clock' = clock /\ store' = store)

\* the clock readings a task can make
ClockReadings == {k * TickDays : k \in 0..(MaxClock \div TickDays + 1)}

\* what each synchronous invocation returns alone at each clock reading,
\* with an empty collection
AloneAt ==
    [inv \in SynchronousInvocations |->
       [now \in ClockReadings |-> Alone(inv, now, <<>>)]]

\* every finished invocation returned what it returns alone: parse, price
\* and solve whatever the clock and the collection, aggregate at the clock
\* it read, percentile with the collection it read
ResultsAsAlone ==
    \A t \in Done :
       LET task == tasks[t]
       IN  CASE task.inv.op \in {"parse", "price", "solve"} ->
                  /\ \A now \in ClockReadings : task.ret = AloneAt[task.inv][now]
                  /\ task.now = 0 /\ task.docs = <<>>
             [] task.inv.op = "aggregate" ->
                  /\ task.ret = AloneAt[task.inv][task.now]
                  /\ task.docs = <<>>
             [] task.inv.op = "percentile" ->
                  /\ task.ret = Alone(task.inv, 0, task.docs)
                  /\ task.now = 0

-----------------------------------------------------------------------------
(* Claims about the two loops of the solver, checked under SpecSolver *)

\* the Newton-Raphson loop is about to run an iteration with a vega that
\* is not 0.0
NewtonIterates ==
    /\ iv_pc = "newton"
    /\ newton_i < 100
    /\ VegaAt(iv_args, cur_volatility) # 0

\* sigma - (model_price - observed_price) / vega, clamped to [0.001, 5.0]
NextIterate ==
    LET model_price == PriceAt(iv_args, cur_volatility)
        raw == cur_volatility -
                 FxDiv(model_price - iv_args.option_price,
                       VegaAt(iv_args, cur_volatility))
    IN  IF raw < 1000 THEN 1000 ELSE IF raw > 5 * FxOne THEN 5 * FxOne ELSE raw

\* what an iteration does: return the new iterate when it is within 0.0001
\* of the previous one, else go on from it
IterationOutcome ==
    IF Abs(NextIterate - cur_volatility) < 100
    THEN iv_pc' = "done" /\ iv_ret' = [some |-> TRUE, v |-> NextIterate]
    ELSE /\ iv_pc' = "newton" /\ cur_volatility' = NextIterate
         /\ iv_ret' = iv_ret

BisectionRun == iv_pc \in {"bisection_entry", "bisection"} \/ bisect_exit # ""

\* the Newton-Raphson loop has been left without a return: by the break at
\* a vega of exactly 0, or with its 100 iterations used
EndedWithoutConvergence ==
    \/ newton_exit = "vega_zero" /\ VegaAt(iv_args, cur_volatility) = 0
    \/ newton_exit = "exhausted" /\ newton_i = 100

\* C22: the bisection fallback is run if and only if the Newton-Raphson
\* phase ended without convergence: vega was exactly 0 at some iterate, and
\* the loop is left at once, or all 100 iterations were used.  Once
\* Newton-Raphson has converged its value is returned and bisection is never
\* run, and bisection never precedes the Newton-Raphson phase.
C22_FallbackIffNoConvergence ==
    /\ [](BisectionRun <=> EndedWithoutConvergence)
    /\ [](newton_exit \in {"vega_zero", "exhausted"} <=> EndedWithoutConvergence)
    /\ [](newton_exit = "converged" =>
            /\ iv_pc = "done" /\ iv_ret.some
            /\ Abs(iv_ret.v - cur_volatility) < 100
            /\ ~BisectionRun /\ bisect_i = 0)
    /\ [][(iv_pc = "newton" /\ newton_i < 100
             /\ VegaAt(iv_args, cur_volatility) = 0)
          => (iv_pc' = "bisection_entry" /\ newton_i' = newton_i)]_vars
    /\ [][(iv_pc = "newton" /\ newton_i >= 100) => iv_pc' = "bisection_entry"]_vars
    /\ [][BisectionRun => iv_pc' # "newton"]_vars

\* the loop left at a vega of 0 after an iteration, and the fallback run
C22_Witness ==
    /\ newton_exit = "vega_zero"
    /\ newton_i >= 1
    /\ iv_pc = "done"
    /\ bisect_exit = "tolerance"

\* the fallback has been called on a price inside [price(0.001), price(5.0)]
FallbackInRange ==
    /\ FallbackChecked
    /\ PriceAt(iv_args, 1000) <= iv_args.option_price
    /\ iv_args.option_price <= PriceAt(iv_args, 5 * FxOne)

\* the midpoint of the bracket, and whether the price there is within
\* 0.0001 of the observed one
Midpoint == (vol_low + vol_high) \div 2
MidpointMeetsTolerance ==
    Abs(PriceAt(iv_args, Midpoint) - iv_args.option_price) < 100

\* C23: on a price inside [price(0.001), price(5.0)] the bisection fallback
\* runs at most 100 halving steps on the bracket [0.001, 5.0]; it returns
\* the midpoint at which the price is within 0.0001 of the observed one, or,
\* when no iteration meets that, the midpoint of the final bracket; it never
\* returns null on this path.
C23_BisectionReturnsMidpoint ==
    /\ [](FallbackInRange =>
            /\ bisect_i <= 100
            /\ 1000 <= vol_low /\ vol_high <= 5 * FxOne
            /\ bisect_i = 0 /\ iv_pc = "bisection" =>
                 vol_low = 1000 /\ vol_high = 5 * FxOne)
    /\ [](FallbackInRange /\ iv_pc = "done" =>
            /\ iv_ret = [some |-> TRUE, v |-> Midpoint]
            /\ bisect_exit \in {"tolerance", "exhausted"}
            /\ bisect_exit = "tolerance" => MidpointMeetsTolerance
            /\ bisect_exit = "exhausted" => bisect_i = 100)
    /\ [][iv_pc = "bisection" /\ bisect_i < 100 =>
            IF MidpointMeetsTolerance
            THEN iv_pc' = "done" /\ bisect_exit' = "tolerance"
            ELSE /\ iv_pc' = "bisection" /\ bisect_i' = bisect_i + 1
                 /\ \/ vol_low' = Midpoint /\ vol_high' = vol_high
                    \/ vol_high' = Midpoint /\ vol_low' = vol_low]_vars

\* all 100 iterations run without the price coming within the tolerance,
\* and the midpoint of the last bracket returned
C23_Witness ==
    /\ FallbackInRange
    /\ iv_pc = "done"
    /\ bisect_exit = "exhausted"
    /\ bisect_i = 100
    /\ iv_ret = [some |-> TRUE, v |-> Midpoint]

-----------------------------------------------------------------------------
(* Claims about fetch_stock_data, checked under SpecFetch *)

\* the call returned a StockData with a spot and no error
Reported == fs_pc = "done" /\ fs_out.error = ""

\* what the live option chain of the call gives
FsLive == LiveIv(fs_in.option_chain_data, fs_in.ltp, fs_in.now)

\* the previous day's document has an IV
FsStoredIv ==
    /\ fs_in.previous_day_data.some
    /\ Get(fs_in.previous_day_data.doc, "iv").k # "none"

\* a stored number as StockData carries it: rounded to 2 decimals unless 0
AsReported(v) ==
    IF v.k = "none" THEN Nothing ELSE Val(RoundTwo(ToFx(v)))

\* C24: the IV fetch_stock_data reports follows a strict priority: the IV
\* extracted from the live option chain when the extraction gives one;
\* otherwise the stored IV of the previous day's document, with its stored
\* percentile, when there is such a document; the mock value
\* 20 + hash(symbol) % 30 only when neither gives an IV.  A live IV is
\* never replaced by a stored or a mock value: a call that ends in an error
\* entry reports no IV at all.
C24_IvPriority ==
    fs_pc = "done" =>
      IF fs_out.error # "" THEN fs_out.iv = Nothing
      ELSE IF FsLive.some THEN fs_out.iv = Val(RoundTwo(FsLive.v))
      ELSE IF FsStoredIv
      THEN /\ fs_out.iv = AsReported(Get(fs_in.previous_day_data.doc, "iv"))
           /\ fs_out.iv_percentile =
                AsReported(Get(fs_in.previous_day_data.doc, "iv_percentile"))
      ELSE fs_out.iv = Val((20 + (hash(fs_in.symbol) % 30)) * FxOne)

\* a chain with a record nothing can be extracted from, and yesterday's
\* document with its IV 18.5 and its percentile 50 reported
C24_Witness ==
    /\ Reported
    /\ fs_in.option_chain_data.some
    /\ RecordsUsable(fs_in.option_chain_data.payload.records)
    /\ ~FsLive.some
    /\ FsStoredIv
    /\ fs_in.previous_day_data.doc.date = fs_in.now - 1
    /\ fs_out.iv = Val(18500000)
    /\ fs_out.iv_percentile = Val(50 * FxOne)

\* the bisection loop is running on its bracket
InBisection == iv_pc = "bisection"

\* an iteration of the loop that did not return
Halved == iv_pc = "bisection" /\ iv_pc' = "bisection" /\ bisect_i' = bisect_i + 1

\* the bracket lies in [0.001, 5.0] and the prices at its ends enclose
\* the observed price
BracketEncloses ==
    /\ 1000 <= vol_low /\ vol_low <= vol_high /\ vol_high <= 5 * FxOne
    /\ PriceAt(iv_args, vol_low) <= iv_args.option_price
    /\ iv_args.option_price <= PriceAt(iv_args, vol_high)

\* C25 as stated: at every iteration of calculate_iv_bisection,
\* 0.001 <= vol_low <= vol_high <= 5.0, the bracket width is exactly half
\* of the previous iteration's, and price(vol_low) <= observed_price <=
\* price(vol_high).
C25_BracketHalvesExactly ==
    /\ [](InBisection => BracketEncloses)
    /\ [][Halved => 2 * (vol_high' - vol_low') = vol_high - vol_low]_vars

\* C25 amended: at every iteration 0.001 <= vol_low <= vol_high <= 5.0 and
\* price(vol_low) <= observed_price <= price(vol_high); the new bracket is
\* the lower or the upper part of the previous one, cut at the computed
\* midpoint (vol_low + vol_high) / 2, so its width is half of the previous
\* iteration's to within the rounding of that midpoint, one unit in the
\* last place.
C25_BracketHalves ==
    /\ [](InBisection => BracketEncloses)
    /\ [][Halved =>
            /\ \/ vol_low' = vol_low /\ vol_high' = (vol_low + vol_high) \div 2
               \/ vol_high' = vol_high /\ vol_low' = (vol_low + vol_high) \div 2
            /\ Abs(2 * (vol_high' - vol_low') - (vol_high - vol_low)) <= 1]_vars

\* the bracket after four iterations, its width 0.312437 or 0.312438: half
\* of 0.624875 as the numbers of the model can give it
C25_Witness ==
    /\ InBisection
    /\ bisect_i = 4
    /\ vol_high - vol_low \in {312437, 312438}
    /\ BracketEncloses

-----------------------------------------------------------------------------
(* A further claim about the parser, checked under SpecParser *)

\* a raw number that is 0: 0, 0.0 or false
IsZero(raw) == raw.k \in {"int", "float", "bool"} /\ raw.n = 0

\* the normalized field f of the raw value: null for a raw 0 as for a raw
\* null, and never the number 0
NullNotZero(f, raw) ==
    /\ (IsZero(raw) \/ raw.k = "none") => f = NoneV
    /\ f = NoneV \/ (f.k = "float" /\ f.n # 0)

-----------------------------------------------------------------------------
(* A further claim about extract_iv_from_option_chain, under SpecAggregator *)

\* the payload is a dict with one of the keys 'IV', 'impliedVolatility', 'iv'
CarriesDirectIv ==
    /\ ag_pc = "done"
    /\ ag_payload.dict
    /\ \E j \in 1..3 : ag_payload.direct[j] # Absent

\* the value under the first of the three keys, in that order
DirectValue ==
    IF ag_payload.direct[1] # Absent THEN ag_payload.direct[1]
    ELSE IF ag_payload.direct[2] # Absent THEN ag_payload.direct[2]
    ELSE ag_payload.direct[3]

\* float() takes it: a number, true or false, or a str that spells a number
Convertible(v) == v.k \in {"int", "float", "bool", "numstr"}

\* C27: when the payload carries a top-level key 'IV', 'impliedVolatility'
\* or 'iv', looked up in that order, extract_iv_from_option_chain returns
\* the value under it converted to a number as it is (null when the value
\* cannot be converted): Records is not scanned, and the [5%, 200%] filter,
\* the 5% band, the scaling by 100 and the rounding are not applied.  Only
\* a result computed from Records is sure to lie in [5.0, 200.0].
C27_DirectIvAsIs ==
    /\ CarriesDirectIv =>
         /\ ag_out.calls = <<>> /\ ag_out.options = <<>>
         /\ ag_out.ret = IF Convertible(DirectValue)
                         THEN [exc |-> "", some |-> TRUE,
                               v |-> ToFx(DirectValue)]
                         ELSE [exc |-> "", some |-> FALSE, v |-> 0]
    /\ (ag_pc = "done" /\ ag_out.ret.some /\ ~CarriesDirectIv) =>
         /\ ag_out.calls # <<>>
         /\ 5 * FxOne <= ag_out.ret.v /\ ag_out.ret.v <= 200 * FxOne

\* 'IV': 0 above a usable record: 0.0 is returned, outside [5.0, 200.0],
\* and no record is looked at
C27_Witness ==
    /\ CarriesDirectIv
    /\ ag_payload.records.items # <<>>
    /\ DirectValue = IntV(0)
    /\ ag_out.ret = [exc |-> "", some |-> TRUE, v |-> 0]
    /\ ag_out.calls = <<>>

\* the call was made on an option at or past its expiry
CalledExpired == iv_pc # "idle" /\ iv_args.time_to_expiry <= 0

\* the years to an expiry on `expiry_day` as the aggregator has them on
\* every day of the clock
AggregatorTimes ==
    {calculate_time_to_expiry(ExpiryDay, now) : now \in 0..MaxClock}

\* C28: calculate_implied_volatility returns null at once whenever
\* time_to_expiry <= 0: no price is evaluated and neither loop is entered.
\* The aggregator never gets there, since calculate_time_to_expiry gives
\* 0.0001 years for an expiry that is past or at this instant and a
\* positive number otherwise.
C28_ExpiredGivesNullAtOnce ==
    /\ CalledExpired =>
         /\ iv_pc = "done"
         /\ iv_ret = [some |-> FALSE, v |-> 0]
         /\ newton_exit = "expired" /\ bisect_exit = ""
         /\ newton_i = 0 /\ bisect_i = 0
         /\ cur_volatility = 0 /\ vol_low = 0 /\ vol_high = 0
    /\ newton_exit = "expired" => CalledExpired
    /\ \A t \in AggregatorTimes : t > 0
    /\ \A now \in ExpiryDay..MaxClock :
          calculate_time_to_expiry(ExpiryDay, now) = 100

\* a call at time_to_expiry 0 on a price that has a volatility before
\* expiry: null, with no iteration made
C28_Witness ==
    /\ CalledExpired
    /\ iv_args.time_to_expiry = 0
    /\ iv_args.sigma_true > 0
    /\ iv_pc = "done"
    /\ iv_ret = [some |-> FALSE, v |-> 0]
    /\ newton_i = 0


\* the records of the store for a (symbol, date) pair
RecordsOf(docs, symbol, date) ==
    {docs[j] : j \in {k \in DOMAIN docs :
                        docs[k].symbol = symbol /\ docs[k].date = date}}

OnePerPair ==
    \A i, j \in DOMAIN store :
       i # j => ~(store[i].symbol = store[j].symbol
                  /\ store[i].date = store[j].date)

\* the run is through with a symbol, with this outcome
Through(r, outcome) ==
    /\ sv_runs[r].pc \in {"fetch", "upsert"}
    /\ sv_runs'[r].log = Append(sv_runs[r].log, outcome)

\* the run goes on to the next symbol of the list, or ends after the last
GoesOn(r) ==
    IF sv_runs[r].i < NumSymbols
    THEN sv_runs'[r].pc = "fetch" /\ sv_runs'[r].i = sv_runs[r].i + 1
    ELSE sv_runs'[r].pc = "done"

SaveStep ==
    /\ \A r \in RunIds :
          /\ Through(r, "saved") =>
                LET doc == sv_runs[r].doc
                IN  /\ doc.symbol = Tracked[sv_runs[r].i]
                    /\ doc.date = sv_runs[r].date_key
                    /\ RecordsOf(store', doc.symbol, doc.date) = {doc}
                    /\ \A j \in DOMAIN store :
                          (store[j].symbol # doc.symbol
                           \/ store[j].date # doc.date)
                          => /\ j \in DOMAIN store'
                             /\ store'[j] = store[j]
                    /\ Len(store') <= Len(store) + 1
                    /\ GoesOn(r)
          /\ Through(r, "no_spot") \/ Through(r, "raised") =>
                /\ store' = store
                /\ GoesOn(r)
    /\ (\A r \in RunIds : ~Through(r, "saved")) => store' = store

\* C29: whatever runs of save_daily_stock_data there are, from the route or
\* from the scheduler, on one day or on two, one after the other or
\* overlapping, the store never holds two records of one (symbol, date)
\* pair; a save leaves its stock_doc as the record of its pair and every
\* other record as it was, and nothing but a save changes the store, so
\* a pair's record carries the values of the last save for it; a symbol
\* without a spot, or whose upsert raises, changes no record, and the run
\* goes on to the next symbol.
C29_OneRecordPerPair == []OnePerPair /\ [][SaveStep]_vars

\* two runs for the same date are over: the first saved both symbols, the
\* second had no spot for the first symbol, went on and saved the second
\* symbol after the day had turned, and the store holds two records, the
\* second symbol's being the one of the second run.
C29_Witness ==
    /\ sv_runs[1].pc = "done" /\ sv_runs[1].log = <<"saved", "saved">>
    /\ sv_runs[2].pc = "done" /\ sv_runs[2].log = <<"no_spot", "saved">>
    /\ sv_runs[1].date_key = 0 /\ sv_runs[2].date_key = 0
    /\ sv_runs[2].kind = "scheduled"
    /\ Len(store) = 2
    /\ store[1].symbol = Tracked[1] /\ store[1].saved_at = 0
    /\ store[2].symbol = Tracked[2] /\ store[2].saved_at = TickDays


\* the fetch of the i-th symbol failed: no spot, or an exception
FetchOfFailed(i) ==
    \/ dash_tasks[i].e.ltp.k = "none"
    \/ ChainLookRaises(dash_tasks[i].e.option_chain_data) # ""

\* an entry that carries an error and nothing else beside its symbol
ErrorEntry(entry) ==
    /\ entry.error # ""
    /\ entry = FetchFailed(entry.symbol, entry.error)

ResponseCarriesAll ==
    dash_pc = "done" =>
       /\ Len(dash_out) = NumSymbols
       /\ Len(dash_order) = NumSymbols
       /\ \A i \in 1..NumSymbols :
             /\ dash_out[i].symbol = TOP_20_STOCKS[i]
             /\ dash_out[i] = fetch_stock_data(dash_tasks[i].e)
             /\ IF FetchOfFailed(i)
                THEN ErrorEntry(dash_out[i])
                ELSE /\ dash_out[i].error = ""
                     /\ dash_out[i].spot = dash_tasks[i].e.ltp
                     /\ dash_out[i].iv.some

\* a fetch that ends, failing or not, leaves the other fetches as they are
OthersUntouched ==
    \A i \in DOMAIN dash_tasks :
       (i \in DOMAIN dash_tasks' /\ dash_tasks'[i] # dash_tasks[i]) =>
          \A j \in DOMAIN dash_tasks \ {i} :
             /\ j \in DOMAIN dash_tasks'
             /\ dash_tasks'[j] = dash_tasks[j]

\* C30: the response of get_dashboard_data carries one entry per symbol, the
\* i-th entry being the StockData of the i-th symbol of TOP_20_STOCKS
\* whatever the order the fetches were over in; the entry of a fetch that
\* had no spot or that raised carries its error, the request is answered
\* all the same, and every other entry is what its own fetch made of its
\* own answers.
C30_OneEntryPerSymbolInListOrder ==
    []ResponseCarriesAll /\ [][OthersUntouched]_vars

\* the fetch of the second symbol was over before the fetch of the first,
\* which raised on a chain that is no dict; the response carries the error
\* as its first entry and the second symbol's data as its second.
C30_Witness ==
    /\ dash_pc = "done"
    /\ dash_order = <<2, 1>>
    /\ dash_out[1].symbol = "NIFTY" /\ dash_out[1].error = "AttributeError"
    /\ dash_out[2].symbol = "BANKNIFTY" /\ dash_out[2].error = ""
    /\ dash_out[2].iv.some

=============================================================================
